---- MODULE Spec2Model ----
(***************************************************************************)
(* Model of color-peek: the deterministic K-Means palette extraction of    *)
(* src/src/getDominanteColor.ts (seeding, clustering loop, ranking) and    *)
(* the asynchronous getColorPalette facade with its proxy fallback.        *)
(*                                                                         *)
(* Arrays are 0-based in the source and 1-based here: centroid index i of  *)
(* the source is index i + 1 of the model.                                 *)
(***************************************************************************)
EXTENDS Integers, Sequences, FiniteSets, TLC

(***************************************************************************)
(* Bounds of the model.                                                    *)
(***************************************************************************)
\* longest enumerated PointSet
MaxLen == 4
\* largest number of clusters
MaxK == 3

\* the ColorPoints the enumerated PointSets are built from: the colours of
\* the repository's tests plus neighbours that make means round
Palette ==
  { <<255, 0, 0>>, <<0, 255, 0>>, <<255, 255, 0>>, <<0, 0, 0>>, <<1, 0, 0>> }

\* two runs of the pipeline on one input, one after the other (determinism
\* compares them)
Runs == {1, 2}

\* the calls of getColorPalette that can be in progress together
Calls == {1, 2}

(***************************************************************************)
(* JavaScript values.                                                      *)
(***************************************************************************)
\* undefined: the value of an out-of-range array read (`centroids[i]` with
\* i >= length) and of an option that was not given; a tuple that no
\* centroid and no string equals
undefined == <<"undefined">>

\* array read: s[i], or undefined outside the array
At(s, i) == IF i \in DOMAIN s THEN s[i] ELSE undefined

\* stands for JavaScript's Infinity: larger than every distance between two
\* points of channel range 0..255
Infinity == 3 * 255 * 255 + 1

Range(s) == { s[i] : i \in DOMAIN s }

(***************************************************************************)
(* Helper functions for K-means.                                           *)
(***************************************************************************)
\* calculateDistance returns Math.sqrt of this sum; the source only compares
\* distances (<, >), and sqrt is strictly increasing on these integers, so
\* the model keeps the sum of squares and compares that.
calculateDistance(color1, color2) ==
  (color1[1] - color2[1]) * (color1[1] - color2[1])
  + (color1[2] - color2[2]) * (color1[2] - color2[2])
  + (color1[3] - color2[3]) * (color1[3] - color2[3])

RECURSIVE SumChannel(_, _, _)
\* the reduce of calculateMean for one channel j, from member i on
SumChannel(cluster, j, i) ==
  IF i > Len(cluster) THEN 0
  ELSE cluster[i][j] + SumChannel(cluster, j, i + 1)

\* a plausible slip: exact halves are rounded down
MathRound_halfDown(sum, n) == (2 * sum + n - 1) \div (2 * n)

\* Math.round(sum / n) for sum >= 0, n >= 1: nearest integer, halves up
MathRound(sum, n) == (2 * sum + n) \div (2 * n)

\* a plausible slip: Math.floor in place of Math.round
calculateMean_floor(cluster) ==
  [j \in 1..3 |-> SumChannel(cluster, j, 1) \div Len(cluster)]

calculateMean(cluster) ==
  [j \in 1..3 |-> MathRound(SumChannel(cluster, j, 1), Len(cluster))]

(***************************************************************************)
(* Deterministic centroid initialization (max-min distance).               *)
(***************************************************************************)
RECURSIVE MinDistScan(_, _, _, _)
\* inner loop, lines 66-70: minimum distance of color to the centroids
MinDistScan(color, centroids, i, minDist) ==
  IF i > Len(centroids) THEN minDist
  ELSE LET dist == calculateDistance(color, centroids[i])
       IN MinDistScan(color, centroids, i + 1,
                      IF dist < minDist THEN dist ELSE minDist)

RECURSIVE BestColorScan_lastWins(_, _, _, _, _)
\* a plausible slip: >= lets the last farthest point win
BestColorScan_lastWins(colors, centroids, c, maxDist, bestColor) ==
  IF c > Len(colors) THEN bestColor
  ELSE LET minDist == MinDistScan(colors[c], centroids, 1, Infinity)
       IN IF minDist >= maxDist
          THEN BestColorScan_lastWins(colors, centroids, c + 1, minDist,
                                      colors[c])
          ELSE BestColorScan_lastWins(colors, centroids, c + 1, maxDist,
                                      bestColor)

RECURSIVE BestColorScan(_, _, _, _, _)
\* loop over colors, lines 65-75: strict > keeps the first farthest point
BestColorScan(colors, centroids, c, maxDist, bestColor) ==
  IF c > Len(colors) THEN bestColor
  ELSE LET minDist == MinDistScan(colors[c], centroids, 1, Infinity)
       IN IF minDist > maxDist
          THEN BestColorScan(colors, centroids, c + 1, minDist, colors[c])
          ELSE BestColorScan(colors, centroids, c + 1, maxDist, bestColor)

RECURSIVE SeedLoop(_, _, _, _)
\* loop of lines 61-77, i counted as in the source (1 .. k-1)
SeedLoop(colors, k, i, centroids) ==
  IF i >= k THEN centroids
  ELSE SeedLoop(colors, k, i + 1,
         Append(centroids, BestColorScan(colors, centroids, 1, -1, colors[1])))

\* a plausible slip: the first k points are the seeds (colors.slice(0, k))
getDeterministicCentroids_firstK(colors, k) ==
  IF Len(colors) = 0 THEN <<>>
  ELSE [i \in 1..k |-> colors[IF i <= Len(colors) THEN i ELSE 1]]

getDeterministicCentroids(colors, k) ==
  IF Len(colors) = 0 THEN <<>>
  ELSE SeedLoop(colors, k, 1, <<colors[1]>>)

(***************************************************************************)
(* One cycle of the clustering loop.                                       *)
(***************************************************************************)
RECURSIVE ClosestScan_lastWins(_, _, _, _, _)
\* a plausible slip: <= lets the highest index win among equally near
\* centroids
ClosestScan_lastWins(color, centroids, i, minDistance, closestCentroid) ==
  IF i > Len(centroids) THEN closestCentroid
  ELSE LET distance == calculateDistance(color, centroids[i])
       IN IF distance <= minDistance
          THEN ClosestScan_lastWins(color, centroids, i + 1, distance, i)
          ELSE ClosestScan_lastWins(color, centroids, i + 1, minDistance,
                                    closestCentroid)

RECURSIVE ClosestScan(_, _, _, _, _)
\* lines 96-104: index of the nearest centroid, strict < keeps the lowest
ClosestScan(color, centroids, i, minDistance, closestCentroid) ==
  IF i > Len(centroids) THEN closestCentroid
  ELSE LET distance == calculateDistance(color, centroids[i])
       IN IF distance < minDistance
          THEN ClosestScan(color, centroids, i + 1, distance, i)
          ELSE ClosestScan(color, centroids, i + 1, minDistance,
                           closestCentroid)

\* closestCentroid starts at source index 0, model index 1
ClosestCentroid(color, centroids) ==
  ClosestScan(color, centroids, 1, Infinity, 1)

\* a plausible slip: the clusters of the previous cycle are kept
ResetClusters_keep(k, clusters) == clusters

\* line 91: clusters = Array.from({ length: k }, () => [])
ResetClusters(k, clusters) == [i \in 1..k |-> <<>>]

\* lines 94-106: every color is pushed, in scan order, to one cluster
AssignColors(colors, centroids, clusters) ==
  [i \in DOMAIN clusters |->
     clusters[i] \o
       SelectSeq(colors, LAMBDA color : ClosestCentroid(color, centroids) = i)]

\* a plausible slip: an empty cluster's centroid is reset to black
NewCentroids_resetEmpty(centroids, clusters) ==
  [i \in DOMAIN clusters |->
     IF Len(clusters[i]) = 0 THEN <<0, 0, 0>>
     ELSE calculateMean(clusters[i])]

\* lines 109-117: an empty cluster keeps centroids[i]
NewCentroids(centroids, clusters) ==
  [i \in DOMAIN clusters |->
     IF Len(clusters[i]) = 0 THEN At(centroids, i)
     ELSE calculateMean(clusters[i])]

\* a plausible slip: only the first centroid is compared
Changed_firstCentroid(centroids, newCentroids) ==
  /\ Len(centroids) > 0
  /\ \E j \in DOMAIN centroids[1] : centroids[1][j] # newCentroids[1][j]

\* lines 120-131: some channel of some old centroid differs from the new one
Changed(centroids, newCentroids) ==
  \E i \in DOMAIN centroids :
    \E j \in DOMAIN centroids[i] : centroids[i][j] # newCentroids[i][j]

maxIterations == 20

\* a plausible slip: the loop runs until convergence only
LoopGuard_nocap(change, iterations) == change

\* line 90: while (change && iterations < maxIterations)
LoopGuard(change, iterations) == change /\ iterations < maxIterations

\* the state before the loop, lines 84-88
LoopStart(centroids, k) ==
  [centroids |-> centroids, clusters |-> [i \in 1..k |-> <<>>],
   change |-> TRUE, iterations |-> 0]

\* the loop body, lines 91-133
LoopBody(colors, k, st) ==
  LET clusters == AssignColors(colors, st.centroids,
                               ResetClusters(k, st.clusters))
      newCentroids == NewCentroids(st.centroids, clusters)
  IN [centroids |-> newCentroids, clusters |-> clusters,
      change |-> Changed(st.centroids, newCentroids),
      iterations |-> st.iterations + 1]

(***************************************************************************)
(* Output format and ranking.                                              *)
(***************************************************************************)
\* a plausible slip: centroid.join() joins with ','
JoinDash_comma(centroid) ==
  ToString(centroid[1]) \o "," \o ToString(centroid[2]) \o ","
    \o ToString(centroid[3])

\* centroid.join('-'): decimal channel values joined by '-'
JoinDash(centroid) ==
  ToString(centroid[1]) \o "-" \o ToString(centroid[2]) \o "-"
    \o ToString(centroid[3])

\* lines 137-141: centroid.join throws a TypeError on an undefined centroid
MapThrows(centroids) == \E i \in DOMAIN centroids : centroids[i] = undefined

\* a plausible slip: the length of the centroid is taken for the count
MapEntries_centroidLength(centroids, clusters) ==
  [index \in DOMAIN centroids |->
     [colorKey |-> JoinDash(centroids[index]),
      color |-> centroids[index],
      count |-> Len(centroids[index])]]

\* count: clusters[index]?.length ?? 0
MapEntries(centroids, clusters) ==
  [index \in DOMAIN centroids |->
     [colorKey |-> JoinDash(centroids[index]),
      color |-> centroids[index],
      count |-> IF index \in DOMAIN clusters THEN Len(clusters[index])
                ELSE 0]]

RECURSIVE InsertDesc(_, _, _)
\* places e after every entry of s whose count is >= e.count
InsertDesc(s, e, i) ==
  IF i > Len(s) THEN Append(s, e)
  ELSE IF s[i].count < e.count
       THEN SubSeq(s, 1, i - 1) \o <<e>> \o SubSeq(s, i, Len(s))
       ELSE InsertDesc(s, e, i + 1)

RECURSIVE SortFrom(_, _, _)
SortFrom(entries, i, sorted) ==
  IF i > Len(entries) THEN sorted
  ELSE SortFrom(entries, i + 1, InsertDesc(sorted, entries[i], 1))

\* a plausible slip: the comparator a.count - b.count (ascending)
SortByCount_asc(entries) ==
  LET d == SortFrom(entries, 1, <<>>)
  IN [i \in DOMAIN d |-> d[Len(d) + 1 - i]]

\* line 165: clusteredColors.sort((a, b) => b.count - a.count); the sort of
\* Array.prototype.sort is stable
SortByCount(entries) == SortFrom(entries, 1, <<>>)

(***************************************************************************)
(* kMeansClustering and extractColorsFromImage as functions of their       *)
(* inputs (the load handler of getColorPalette calls them synchronously).  *)
(***************************************************************************)
RECURSIVE KMeansLoop(_, _, _)
\* the while loop of lines 90-134
KMeansLoop(colors, k, st) ==
  IF LoopGuard(st.change, st.iterations)
  THEN KMeansLoop(colors, k, LoopBody(colors, k, st))
  ELSE st

TypeErrorJoin == "TypeError: Cannot read properties of undefined (reading 'join')"

\* the result of a call: a returned value or a thrown error
Return(value) == [threw |-> FALSE, value |-> value, error |-> ""]
Throw(error) == [threw |-> TRUE, value |-> <<>>, error |-> error]

kMeansClustering(colors, k) ==
  LET st == KMeansLoop(colors, k,
                       LoopStart(getDeterministicCentroids(colors, k), k))
  IN IF MapThrows(st.centroids) THEN Throw(TypeErrorJoin)
     ELSE Return(MapEntries(st.centroids, st.clusters))

\* lines 2-29, the size given to the canvas:
\* height *= Math.round(maxWidth / width) multiplies by the rounded ratio
resizeImage(width, height, maxWidth, maxHeight) ==
  IF width > height
  THEN IF width > maxWidth
       THEN LET scaled == height * MathRound(maxWidth, width)
            IN [width |-> maxWidth,
                height |-> IF scaled = 0 THEN 1 ELSE scaled]
       ELSE [width |-> width, height |-> height]
  ELSE IF height > maxHeight
       THEN LET scaled == width * MathRound(maxHeight, height)
            IN [width |-> IF scaled = 0 THEN 1 ELSE scaled,
                height |-> maxHeight]
       ELSE [width |-> width, height |-> height]

\* resizeImage(img, canvas, 100, 100)
MaxSide == 100

\* Sample every 10th pixel for performance
step == 10

\* a plausible slip: the stride counts array elements, not pixels
SamplePixels_elementStride(data) ==
  LET n == (Len(data) + step - 1) \div step
  IN [j \in 1..n |->
        << At(data, step * (j - 1) + 1),
           At(data, step * (j - 1) + 2),
           At(data, step * (j - 1) + 3) >>]

\* lines 158-162: for (i = 0; i < data.length; i += 4 * step), the model's
\* j-th point being the one pushed at i = 4 * step * (j - 1)
SamplePixels(data) ==
  LET n == (Len(data) + 4 * step - 1) \div (4 * step)
  IN [j \in 1..n |->
        << At(data, 4 * step * (j - 1) + 1),
           At(data, 4 * step * (j - 1) + 2),
           At(data, 4 * step * (j - 1) + 3) >>]

SecurityError == "SecurityError: The operation is insecure."

\* what reading the canvas gives, decided by the browser: the bytes of
\* getImageData, no 2d context (ctx is null), or a refused read
ReadData(data) == [kind |-> "data", data |-> data, error |-> ""]
ReadNoContext == [kind |-> "nocontext", data |-> <<>>, error |-> ""]

\* getImageData throws; the message of the exception is the browser's
ReadThrows(message) == [kind |-> "refused", data |-> <<>>, error |-> message]
ReadRefused == ReadThrows(SecurityError)

\* the facade always takes the default, k = 3
DefaultK == 3

\* lines 145-166, for the outcome `read` of the canvas read
extractColorsFromImage(read, k) ==
  IF read.kind = "refused" THEN Throw(read.error)
  ELSE LET sampled == IF read.kind = "data" THEN SamplePixels(read.data)
                      ELSE <<>>
           clusteredColors == kMeansClustering(sampled, k)
       IN IF clusteredColors.threw THEN clusteredColors
          ELSE Return(SortByCount(clusteredColors.value))

(***************************************************************************)
(* Strings of the facade.  A URL is a sequence of characters, so that      *)
(* startsWith and encodeURIComponent work on its text.                     *)
(***************************************************************************)
null == <<"null">>

\* !v for the values an option can have: undefined, null, '' are falsy
Falsy(v) == v = undefined \/ v = null \/ v = <<>>

\* an HTMLImageElement given by the caller, with its src property
ImgElement(src) == <<"HTMLImageElement", src>>
ElementSrc(imgElement) == imgElement[2]

SrcHttps == << "h", "t", "t", "p", "s", ":", "/", "/", "a", "/", "1" >>
SrcLocal == << "v", "a", "l", "i", "d", "-", "i", "m", "a", "g", "e", "-", "s", "r", "c" >>
ElemHttp == << "h", "t", "t", "p", ":", "/", "/", "b", "/", "2" >>

\* the options a call can be made with
OptionValues ==
  [src : {undefined, <<>>, SrcHttps, SrcLocal},
   imgElement : {undefined, null, ImgElement(<<>>), ImgElement(ElemHttp)}]

\* targetSrc.startsWith('http')
StartsWithHttp(str) ==
  Len(str) >= 4 /\ SubSeq(str, 1, 4) = << "h", "t", "t", "p" >>

\* characters encodeURIComponent leaves as they are
Unreserved ==
  { "a", "b", "c", "d", "e", "g", "h", "i", "l", "m", "p", "r", "s", "t",
    "v", "1", "2", "-", "." }

\* encodeURIComponent of one character of the URLs above
EncodeChar(ch) ==
  CASE ch \in Unreserved -> <<ch>>
    [] ch = ":" -> << "%", "3", "A" >>
    [] ch = "/" -> << "%", "2", "F" >>

RECURSIVE encodeURIComponent(_)
encodeURIComponent(str) ==
  IF Len(str) = 0 THEN <<>>
  ELSE EncodeChar(Head(str)) \o encodeURIComponent(Tail(str))

ProxyPrefix == << "h", "t", "t", "p", "s", ":", "/", "/", "i", "m", "a", "g", "e", "s", ".", "w", "e", "s", "e", "r", "v", ".", "n", "l", "/", "?", "u", "r", "l", "=" >>

\* lines 234-236
ProxyUrl(targetSrc) == ProxyPrefix \o encodeURIComponent(targetSrc)

MsgMissing == "Please provide either a source URL or an image element reference."
MsgNoValidSrc == "No valid image src found."
MsgLoadFailed == "Failed to load image for color extraction from source: "

\* an Error: its message, and the source the message ends with (if any)
Error(message, source) == [message |-> message, source |-> source]

\* a plausible slip: the first check is left out
MissingSource_never(src, imgElement) == FALSE

\* line 190: !src && !imgElement
MissingSource(src, imgElement) == Falsy(src) /\ Falsy(imgElement)

\* a plausible slip: the element's src is preferred
TargetSrc_elementFirst(src, imgElement) ==
  IF ~Falsy(imgElement) /\ ~Falsy(ElementSrc(imgElement))
  THEN ElementSrc(imgElement)
  ELSE src

\* line 198: src || imgElement?.src
TargetSrc(src, imgElement) ==
  IF ~Falsy(src) THEN src
  ELSE IF imgElement = undefined \/ imgElement = null THEN undefined
  ELSE ElementSrc(imgElement)

\* a plausible slip: the retry flag is not consulted
ShouldProxy_noFlag(isProxyTried, targetSrc) == StartsWithHttp(targetSrc)

\* a plausible slip: every source is sent to the proxy
ShouldProxy_anySource(isProxyTried, targetSrc) == ~isProxyTried

\* line 232: !isProxyTried && targetSrc.startsWith('http')
ShouldProxy(isProxyTried, targetSrc) ==
  ~isProxyTried /\ StartsWithHttp(targetSrc)

(***************************************************************************)
(* State.                                                                  *)
(***************************************************************************)
VARIABLES
  colors,      \* the PointSet given to both runs
  k,           \* the number of clusters
  pc,          \* per run: "seed", "loop", "map", "sort", "done", "threw"
  centroids,   \* per run: let centroids
  clusters,    \* per run: let clusters
  change,      \* per run: let change
  iterations,  \* per run: let iterations
  clustered,   \* per run: the value kMeansClustering returned
  palette,     \* per run: the sorted value
  promise,     \* per call: "idle" (not called), "pending", "resolved",
               \* "rejected"
  options,     \* per call: the options of the call
  targetSrc,   \* per call: const targetSrc
  isProxyTried, \* per call: let isProxyTried
  onload,      \* per call: img.onload is set (TRUE) or null (FALSE)
  onerror,     \* per call: img.onerror is set (TRUE) or null (FALSE)
  loadPending, \* per call: the image is loading its current src
  settled,     \* per call: the value or error the promise settled with
  srcLog,      \* per call: the values assigned to img.src, in order
  events,      \* per call: the events dispatched on img, in order
  extractCalls, \* per call: number of calls of extractColorsFromImage
  imgSize,     \* the loaded image: [width, height]
  canvasSize,  \* the canvas of extractColorsFromImage: [width, height]
  data,        \* imageData.data of the canvas
  sampled,     \* const colors of extractColorsFromImage, the PointSet
  ipc,         \* position in extractColorsFromImage: "resize", "read",
               \* "sample", "done"
  hookColors,  \* useColorPalette: const [colors, setColors]
  loading,     \* useColorPalette: const [loading, setLoading]
  hookError,   \* useColorPalette: const [error, setError]
  awaiting,    \* per call: extract is suspended at its await
  invoked,     \* the calls of extract, in the order they were made
  jobs,        \* the continuations of extract that are ready to run, in
               \* the order they will run
  lcolors,     \* legacy kMeansClustering: the PointSet
  lk,          \* legacy kMeansClustering: k
  lpc,         \* legacy kMeansClustering: "idle" (not called), "seed",
               \* "loop", "returned", "threw"
  lcentroids,  \* legacy kMeansClustering: let centroids
  lclusters,   \* legacy kMeansClustering: let clusters
  lchange,     \* legacy kMeansClustering: let change
  lresult,     \* legacy kMeansClustering: the value returned
  props,       \* legacy hook: the props { src, imgRef }
  phase,       \* legacy hook: "initial", "mounted" (effect has run),
               \* "unmounted" (cleanup has run)
  legacyColors, \* legacy hook: const [colors, setColors]
  console,     \* the messages given to console.error, in order
  legacySrcLog, \* legacy hook: the values assigned to img.src, in order
  legacyOnload, \* legacy hook: img.onload is set (TRUE) or null (FALSE)
  legacyLoadPending, \* legacy hook: the image is loading
  effectRuns,  \* legacy hook: the number of runs of the effect
  stale        \* legacy hook: the images of the earlier runs of the effect

kmVars == <<colors, k, pc, centroids, clusters, change, iterations,
            clustered, palette>>

callVars == <<promise, options, targetSrc, isProxyTried, onload, onerror,
              loadPending, settled, srcLog, events, extractCalls>>

imgVars == <<imgSize, canvasSize, data, sampled, ipc>>

hookVars == <<hookColors, loading, hookError, awaiting, invoked, jobs>>

legacyKMVars == <<lcolors, lk, lpc, lcentroids, lclusters, lchange, lresult>>

legacyHookVars == <<props, phase, legacyColors, console, legacySrcLog,
                    legacyOnload, legacyLoadPending, effectRuns, stale>>

legacyVars == <<lcolors, lk, lpc, lcentroids, lclusters, lchange, lresult,
                props, phase, legacyColors, console, legacySrcLog,
                legacyOnload, legacyLoadPending, effectRuns, stale>>

vars == <<colors, k, pc, centroids, clusters, change, iterations,
          clustered, palette, promise, options, targetSrc, isProxyTried,
          onload, onerror, loadPending, settled, srcLog, events,
          extractCalls, imgSize, canvasSize, data, sampled, ipc,
          hookColors, loading, hookError, awaiting, invoked, jobs, lcolors,
          lk, lpc, lcentroids, lclusters, lchange, lresult, props, phase,
          legacyColors, console, legacySrcLog, legacyOnload,
          legacyLoadPending, effectRuns, stale>>

(***************************************************************************)
(* The PointSets the pipeline is run on.                                   *)
(***************************************************************************)
\* n copies of one point
Rep(point, n) == [i \in 1..n |-> point]

\* the sampled points of the tests' pixel buffers: 40 pixels per colour,
\* every 10th pixel sampled
TestPointsRGB ==
  Rep(<<255, 0, 0>>, 4) \o Rep(<<0, 255, 0>>, 4) \o Rep(<<0, 0, 255>>, 4)

TestPointsRGBY == TestPointsRGB \o Rep(<<255, 255, 0>>, 4)

\* red-channel values of a PointSet on which two centroids keep moving for
\* more than maxIterations cycles before they settle
SlowReds ==
  << 167, 114, 75, 144, 158, 133, 118, 149, 152, 162, 97, 142, 103, 121,
     155, 221, 0, 252, 251, 113, 25, 130, 136, 38, 140, 107, 243, 255, 169,
     128, 124, 84 >>

SlowPoints == [i \in DOMAIN SlowReds |-> <<SlowReds[i], 0, 0>>]

PointSets ==
  UNION { [1..n -> Palette] : n \in 0..MaxLen }
    \cup { TestPointsRGB, TestPointsRGBY, SlowPoints }

\* points per colour of the four-colour PointSet
PerColour == 20

\* the same number of points of each of four colours
EachRGBY ==
  Rep(<<255, 0, 0>>, PerColour) \o Rep(<<0, 255, 0>>, PerColour)
    \o Rep(<<0, 0, 255>>, PerColour) \o Rep(<<255, 255, 0>>, PerColour)

\* a PointSet of two points
TwoPoints == << <<255, 0, 0>>, <<0, 0, 255>> >>

\* the arguments (colors, k) of kMeansClustering
Inputs ==
  [colors : PointSets, k : 1..MaxK]
    \cup { [colors |-> EachRGBY, k |-> 4], [colors |-> TwoPoints, k |-> 5],
           [colors |-> EachRGBY, k |-> DefaultK] }

(***************************************************************************)
(* The pipeline, one run r at a time: kMeansClustering(colors, k) followed *)
(* by the sort of extractColorsFromImage.                                  *)
(***************************************************************************)
\* no call of getColorPalette has been made
InitCalls ==
  /\ promise = [c \in Calls |-> "idle"]
  /\ options = [c \in Calls |-> [src |-> undefined, imgElement |-> undefined]]
  /\ targetSrc = [c \in Calls |-> undefined]
  /\ isProxyTried = [c \in Calls |-> FALSE]
  /\ onload = [c \in Calls |-> FALSE]
  /\ onerror = [c \in Calls |-> FALSE]
  /\ loadPending = [c \in Calls |-> FALSE]
  /\ settled = [c \in Calls |-> <<>>]
  /\ srcLog = [c \in Calls |-> <<>>]
  /\ events = [c \in Calls |-> <<>>]
  /\ extractCalls = [c \in Calls |-> 0]

\* no run of the pipeline has started
InitRuns ==
  /\ pc = [r \in Runs |-> "seed"]
  /\ centroids = [r \in Runs |-> <<>>]
  /\ clusters = [r \in Runs |-> <<>>]
  /\ change = [r \in Runs |-> TRUE]
  /\ iterations = [r \in Runs |-> 0]
  /\ clustered = [r \in Runs |-> <<>>]
  /\ palette = [r \in Runs |-> <<>>]

Terminal == {"done", "threw"}

\* the code is synchronous: a run starts when the one before it has ended
MayStart(r) == \A q \in Runs : q < r => pc[q] \in Terminal

\* no image has been handed to extractColorsFromImage
InitImage ==
  /\ imgSize = [width |-> 0, height |-> 0]
  /\ canvasSize = [width |-> 0, height |-> 0]
  /\ data = <<>>
  /\ sampled = <<>>
  /\ ipc = "resize"

\* the state of useColorPalette after its first render, part_002 lines 9-11
InitHook ==
  /\ hookColors = null
  /\ loading = FALSE
  /\ hookError = null
  /\ awaiting = [c \in Calls |-> FALSE]
  /\ invoked = <<>>
  /\ jobs = <<>>

\* the legacy kMeansClustering has not been called
InitLegacyKM ==
  /\ lcolors = <<>>
  /\ lk = 0
  /\ lpc = "idle"
  /\ lcentroids = <<>>
  /\ lclusters = <<>>
  /\ lchange = TRUE
  /\ lresult = <<>>

\* the legacy hook is not in use
InitLegacyHook ==
  /\ props = [src |-> undefined, imgRef |-> undefined]
  /\ phase = "initial"
  /\ legacyColors = null
  /\ console = <<>>
  /\ legacySrcLog = <<>>
  /\ legacyOnload = FALSE
  /\ legacyLoadPending = FALSE
  /\ effectRuns = 0
  /\ stale = <<>>

InitLegacy == InitLegacyKM /\ InitLegacyHook

InitKM ==
  /\ \E in \in Inputs :
       /\ colors = in.colors
       /\ k = in.k
  /\ InitRuns
  /\ InitCalls
  /\ InitImage
  /\ InitHook
  /\ InitLegacy

\* a plausible slip: the first seed is drawn at random from the PointSet
\* (as getRandomCentroids of the legacy variant draws all of them)
Seed_random(r) ==
  /\ pc[r] = "seed"
  /\ MayStart(r)
  /\ Len(colors) > 0
  /\ \E first \in Range(colors) :
       LET st == LoopStart(SeedLoop(colors, k, 1, <<first>>), k)
       IN /\ centroids' = [centroids EXCEPT ![r] = st.centroids]
          /\ clusters' = [clusters EXCEPT ![r] = st.clusters]
          /\ change' = [change EXCEPT ![r] = st.change]
          /\ iterations' = [iterations EXCEPT ![r] = st.iterations]
  /\ pc' = [pc EXCEPT ![r] = "loop"]
  /\ UNCHANGED <<colors, k, clustered, palette, callVars>>

\* lines 84-88
Seed(r) ==
  /\ pc[r] = "seed"
  /\ MayStart(r)
  /\ LET st == LoopStart(getDeterministicCentroids(colors, k), k)
     IN /\ centroids' = [centroids EXCEPT ![r] = st.centroids]
        /\ clusters' = [clusters EXCEPT ![r] = st.clusters]
        /\ change' = [change EXCEPT ![r] = st.change]
        /\ iterations' = [iterations EXCEPT ![r] = st.iterations]
  /\ pc' = [pc EXCEPT ![r] = "loop"]
  /\ UNCHANGED <<colors, k, clustered, palette, callVars>>

\* one cycle of the while loop, lines 90-134
Iterate(r) ==
  /\ pc[r] = "loop"
  /\ LoopGuard(change[r], iterations[r])
  /\ LET st == LoopBody(colors, k,
                 [centroids |-> centroids[r], clusters |-> clusters[r],
                  change |-> change[r], iterations |-> iterations[r]])
     IN /\ centroids' = [centroids EXCEPT ![r] = st.centroids]
        /\ clusters' = [clusters EXCEPT ![r] = st.clusters]
        /\ change' = [change EXCEPT ![r] = st.change]
        /\ iterations' = [iterations EXCEPT ![r] = st.iterations]
  /\ UNCHANGED <<colors, k, pc, clustered, palette, callVars>>

\* the loop is left, line 90
ExitLoop(r) ==
  /\ pc[r] = "loop"
  /\ ~LoopGuard(change[r], iterations[r])
  /\ pc' = [pc EXCEPT ![r] = "map"]
  /\ UNCHANGED <<colors, k, centroids, clusters, change, iterations,
                 clustered, palette, callVars>>

\* lines 137-141; the TypeError of centroid.join leaves the function
MapOutput(r) ==
  /\ pc[r] = "map"
  /\ IF MapThrows(centroids[r])
     THEN /\ pc' = [pc EXCEPT ![r] = "threw"]
          /\ UNCHANGED clustered
     ELSE /\ pc' = [pc EXCEPT ![r] = "sort"]
          /\ clustered' = [clustered EXCEPT
                             ![r] = MapEntries(centroids[r], clusters[r])]
  /\ UNCHANGED <<colors, k, centroids, clusters, change, iterations,
                 palette, callVars>>

\* line 165
Rank(r) ==
  /\ pc[r] = "sort"
  /\ palette' = [palette EXCEPT ![r] = SortByCount(clustered[r])]
  /\ pc' = [pc EXCEPT ![r] = "done"]
  /\ UNCHANGED <<colors, k, centroids, clusters, change, iterations,
                 clustered, callVars>>

RunStep(r) ==
  \/ Seed(r)
  \/ Iterate(r)
  \/ ExitLoop(r)
  \/ MapOutput(r)
  \/ Rank(r)

NextKM ==
  (\E r \in Runs : RunStep(r)) /\ UNCHANGED <<imgVars, hookVars, legacyVars>>

SpecKM == InitKM /\ [][NextKM]_vars

(***************************************************************************)
(* Properties of the clustering pipeline.                                  *)
(***************************************************************************)
\* kMeansClustering has returned its entries in run r
Returned(r) == pc[r] \in {"sort", "done"}

RECURSIVE SumCounts(_, _)
SumCounts(entries, i) ==
  IF i > Len(entries) THEN 0 ELSE entries[i].count + SumCounts(entries, i + 1)

\* C1: for a non-empty PointSet and k >= 1 kMeansClustering does not throw
\* and returns exactly k entries, each of count >= 0, whose counts sum to
\* the number of points.
C1_EntriesAndCounts ==
  \A r \in Runs :
    Len(colors) > 0 =>
      /\ pc[r] # "threw"
      /\ Returned(r) =>
           /\ Len(clustered[r]) = k
           /\ \A i \in DOMAIN clustered[r] : clustered[r][i].count >= 0
           /\ SumCounts(clustered[r], 1) = Len(colors)

\* a run of several cycles on several points and clusters has returned
C1_Witness ==
  /\ Returned(1)
  /\ Len(colors) >= 3
  /\ k >= 2
  /\ iterations[1] >= 2
  /\ \E i \in DOMAIN clustered[1] : clustered[1][i].count >= 2

\* C2: for the empty PointSet and k = 3 the pipeline raises no exception
\* and returns zero entries.
C2_EmptyGivesNoEntries ==
  \A r \in Runs :
    (Len(colors) = 0 /\ k = 3) =>
      /\ pc[r] # "threw"
      /\ pc[r] = "done" => Len(palette[r]) = 0

StepsLeft(r) ==
  CASE pc[r] = "seed" -> maxIterations + 4
    [] pc[r] = "loop" -> (maxIterations - iterations[r]) + 3
    [] pc[r] = "map" -> 2
    [] pc[r] = "sort" -> 1
    [] OTHER -> 0

\* C4: no run performs more than 20 assignment/update cycles, and every
\* run terminates: each step of a run takes it strictly closer to its end,
\* of which it is never more than 20 cycles and 4 steps away.
C4_IterationCap ==
  [][ /\ \A r \in Runs :
          /\ iterations'[r] <= maxIterations
          /\ StepsLeft(r)' >= 0
          /\ StepsLeft(r)' <= StepsLeft(r)
      /\ \E r \in Runs : StepsLeft(r)' < StepsLeft(r) ]_vars

\* a run left the loop at the cap while its centroids were still moving
C4_Witness ==
  /\ pc[1] = "done"
  /\ iterations[1] = maxIterations
  /\ change[1]

\* counts never increase along the sequence
SortedDesc(entries) ==
  \A i, j \in DOMAIN entries :
    i < j => entries[i].count >= entries[j].count

\* the entries of a given count, in their order in the sequence
OfCount(entries, c) == SelectSeq(entries, LAMBDA e : e.count = c)

\* C5: the returned palette is ordered by count descending and the entries
\* of equal count keep the order in which kMeansClustering emitted them.
C5_RankedStable ==
  \A r \in Runs :
    pc[r] = "done" =>
      /\ Len(palette[r]) = Len(clustered[r])
      /\ SortedDesc(palette[r])
      /\ \A c \in 0..Len(colors) :
           OfCount(palette[r], c) = OfCount(clustered[r], c)

\* a returned palette that the sort reordered and that has a tie between
\* two different colours
C5_Witness ==
  /\ pc[1] = "done"
  /\ palette[1] # clustered[1]
  /\ \E i, j \in DOMAIN palette[1] :
       /\ i < j
       /\ palette[1][i].count = palette[1][j].count
       /\ palette[1][i].color # palette[1][j].color

\* number of occurrences of point p in the PointSet
Multiplicity(p) == Cardinality({ i \in DOMAIN colors : colors[i] = p })

Digits == << "0", "1", "2", "3", "4", "5", "6", "7", "8", "9" >>

RECURSIVE Decimal(_)
\* the decimal numeral of n >= 0, without leading zeros
Decimal(n) ==
  IF n < 10 THEN Digits[n + 1]
  ELSE Decimal(n \div 10) \o Digits[(n % 10) + 1]

\* the decimal values of the three channels joined by '-'
DashKey(color) ==
  Decimal(color[1]) \o "-" \o Decimal(color[2]) \o "-" \o Decimal(color[3])

\* C15: when the PointSet has d <= k distinct colours, every distinct colour
\* is the colour, and its key the colorKey, of a returned entry whose count
\* is the colour's multiplicity; the same number of points of each of four
\* colours with k = 4 gives four entries of that count each.
C15_DistinctColoursKept ==
  \A r \in Runs :
    (Len(colors) > 0 /\ Cardinality(Range(colors)) <= k) =>
      /\ pc[r] # "threw"
      /\ Returned(r) =>
           /\ \A p \in Range(colors) :
                \E i \in DOMAIN clustered[r] :
                  /\ clustered[r][i].color = p
                  /\ clustered[r][i].colorKey = DashKey(p)
                  /\ clustered[r][i].count = Multiplicity(p)
           /\ (colors = EachRGBY /\ k = 4) =>
                /\ Len(clustered[r]) = 4
                /\ \A i \in DOMAIN clustered[r] :
                     clustered[r][i].count = PerColour
      /\ pc[r] = "done" =>
           \A p \in Range(colors) :
             \E i \in DOMAIN palette[r] :
               /\ palette[r][i].color = p
               /\ palette[r][i].colorKey = DashKey(p)
               /\ palette[r][i].count = Multiplicity(p)

\* the run on the four-colour PointSet with k = 4 has returned
C15_Witness ==
  /\ pc[1] = "done"
  /\ colors = EachRGBY
  /\ k = 4
  /\ Len(palette[1]) = 4

\* three integer channels, each in 0..255
IsColor(c) ==
  /\ DOMAIN c = 1..3
  /\ \A j \in 1..3 : c[j] \in 0..255

\* C16: for a non-empty PointSet the centroids after the seeding and after
\* every cycle are colours of three integer channels in 0..255, and so is
\* the colour of every returned entry, whose colorKey is the decimal values
\* of its three channels joined by '-'.
C16_ColourAndKeyFormat ==
  \A r \in Runs :
    Len(colors) > 0 =>
      /\ pc[r] # "seed" =>
           \A i \in DOMAIN centroids[r] : IsColor(centroids[r][i])
      /\ Returned(r) =>
           \A i \in DOMAIN clustered[r] :
             /\ IsColor(clustered[r][i].color)
             /\ clustered[r][i].colorKey = DashKey(clustered[r][i].color)
      /\ pc[r] = "done" =>
           \A i \in DOMAIN palette[r] :
             /\ IsColor(palette[r][i].color)
             /\ palette[r][i].colorKey = DashKey(palette[r][i].color)

\* an entry whose colour is a rounded mean of several points, not a point of
\* the PointSet, has been returned after more than one cycle
C16_Witness ==
  /\ pc[1] = "done"
  /\ iterations[1] >= 2
  /\ \E i \in DOMAIN palette[1] :
       /\ palette[1][i].color \notin Range(colors)
       /\ palette[1][i].count >= 2
       /\ palette[1][i].color[1] >= 100

\* the least distance of point p to the seeds
MinDistTo(p, seeds) ==
  LET ds == { calculateDistance(p, seeds[i]) : i \in DOMAIN seeds }
  IN CHOOSE d \in ds : \A e \in ds : d <= e

\* the largest, over the PointSet, of the least distances to the seeds
FarthestDist(seeds) ==
  LET ds == { MinDistTo(colors[c], seeds) : c \in DOMAIN colors }
  IN CHOOSE d \in ds : \A e \in ds : d >= e

\* the first index in scan order of a point at that distance
FirstFarthest(seeds) ==
  LET cs == { c \in DOMAIN colors :
                MinDistTo(colors[c], seeds) = FarthestDist(seeds) }
  IN CHOOSE c \in cs : \A e \in cs : c <= e

\* the seeds of run r are in place and no cycle has run
JustSeeded(r) == pc[r] = "loop" /\ iterations[r] = 0

\* C17: on a non-empty PointSet getDeterministicCentroids returns exactly k
\* seeds, all points of the PointSet: the first is the first point, and each
\* later one is the earliest point in scan order whose least distance to the
\* seeds chosen before it is the largest over the PointSet.
C17_MaxMinSeeds ==
  \A r \in Runs :
    (JustSeeded(r) /\ Len(colors) > 0) =>
      /\ Len(centroids[r]) = k
      /\ \A i \in 1..k : centroids[r][i] \in Range(colors)
      /\ centroids[r][1] = colors[1]
      /\ \A i \in 2..k :
           centroids[r][i]
             = colors[FirstFarthest(SubSeq(centroids[r], 1, i - 1))]

\* three seeds have been chosen where two different points tied for the
\* largest least distance to the first seed
C17_Witness ==
  /\ JustSeeded(1)
  /\ k >= 3
  /\ \E c, e \in DOMAIN colors :
       /\ c < e
       /\ colors[c] # colors[e]
       /\ MinDistTo(colors[c], <<colors[1]>>) = FarthestDist(<<colors[1]>>)
       /\ MinDistTo(colors[e], <<colors[1]>>) = FarthestDist(<<colors[1]>>)

\* the number of distinct points of the PointSet
Distinct == Cardinality(Range(colors))

\* C18: for a non-empty PointSet, in every cycle a cluster with no member
\* keeps its previous centroid; when the PointSet has fewer than k distinct
\* points the run does not throw, and each centroid beyond the distinct
\* points is returned with its seeded value and count 0.
C18_EmptyClusterKeepsCentroid ==
  [][ \A r \in Runs :
        Len(colors) > 0 =>
          /\ iterations'[r] = iterations[r] + 1 =>
               \A i \in DOMAIN clusters'[r] :
                 Len(clusters'[r][i]) = 0 =>
                   centroids'[r][i] = centroids[r][i]
          /\ Distinct < k =>
               /\ pc'[r] # "threw"
               /\ Returned(r)' =>
                    \A i \in (Distinct + 1)..k :
                      /\ clustered'[r][i].color
                           = getDeterministicCentroids(colors, k)[i]
                      /\ clustered'[r][i].count = 0 ]_vars

\* the run on two points with k = 5 has returned three entries of count 0
C18_Witness ==
  /\ pc[1] = "done"
  /\ colors = TwoPoints
  /\ k = 5
  /\ Cardinality({ i \in DOMAIN palette[1] : palette[1][i].count = 0 }) = 3

\* the lowest index of a centroid nearest to point p
LowestNearest(p, cs) ==
  CHOOSE i \in DOMAIN cs :
    /\ \A j \in DOMAIN cs :
         calculateDistance(p, cs[i]) <= calculateDistance(p, cs[j])
    /\ \A j \in DOMAIN cs :
         j < i => calculateDistance(p, cs[j]) > calculateDistance(p, cs[i])

\* the points whose lowest nearest centroid is cs[i], in scan order
MembersOf(i, cs) ==
  SelectSeq(colors, LAMBDA p : LowestNearest(p, cs) = i)

\* run r completes a cycle of the loop in this step
CycleOf(r) == iterations'[r] = iterations[r] + 1

RECURSIVE TotalLen(_, _)
\* the number of members of the first n clusters together
TotalLen(cl, n) == IF n = 0 THEN 0 ELSE Len(cl[n]) + TotalLen(cl, n - 1)

\* C21: in every cycle each point of a non-empty PointSet is placed in
\* exactly one cluster, that of a nearest centroid, the lowest index among
\* equally near centroids; the clusters hold the points in scan order.
C21_AssignedToLowestNearest ==
  [][ \A r \in Runs :
        (CycleOf(r) /\ Len(colors) > 0) =>
          /\ Len(clusters'[r]) = k
          /\ TotalLen(clusters'[r], k) = Len(colors)
          /\ \A i \in 1..k :
               clusters'[r][i] = MembersOf(i, centroids[r]) ]_vars

\* the first cycle has placed a point that had two equally near, different
\* seeds in the cluster of the lower index
C21_Witness ==
  /\ pc[1] = "loop"
  /\ iterations[1] = 1
  /\ LET seeds == getDeterministicCentroids(colors, k)
     IN \E c \in DOMAIN colors :
          \E i, j \in DOMAIN seeds :
            /\ i < j
            /\ seeds[i] # seeds[j]
            /\ LowestNearest(colors[c], seeds) = i
            /\ calculateDistance(colors[c], seeds[i])
                 = calculateDistance(colors[c], seeds[j])
            /\ colors[c] \in Range(clusters[1][i])

\* the palette entry of a colour and a count
Entry(color, count) ==
  [colorKey |-> DashKey(color), color |-> color, count |-> count]

\* equal-sized blocks of red, green, blue and yellow points
Blocks == { TestPointsRGBY, EachRGBY }

\* C22: for equal-sized blocks of (255,0,0), (0,255,0), (0,0,255) and
\* (255,255,0) clustered with k = 3, the yellow points join the red
\* cluster, and the palette is 255-128-0 with the count of the red and the
\* yellow points, then 0-255-0 and 0-0-255.
C22_YellowJoinsRed ==
  \A r \in Runs :
    (colors \in Blocks /\ k = DefaultK) =>
      LET n == Len(colors) \div 4
      IN /\ (pc[r] = "loop" /\ iterations[r] > 0) =>
              /\ Len(clusters[r][1]) = 2 * n
              /\ Cardinality({ c \in DOMAIN clusters[r][1] :
                               clusters[r][1][c] = <<255, 255, 0>> }) = n
         /\ pc[r] = "done" =>
              palette[r] = << Entry(<<255, 128, 0>>, 2 * n),
                              Entry(<<0, 255, 0>>, n),
                              Entry(<<0, 0, 255>>, n) >>

\* the blocks of the larger size have been clustered with k = 3
C22_Witness ==
  /\ pc[1] = "done"
  /\ colors = EachRGBY
  /\ k = DefaultK
  /\ palette[1][1].colorKey = "255-128-0"

RECURSIVE Total(_, _, _)
\* the sum of channel j over the first n members
Total(members, j, n) ==
  IF n = 0 THEN 0 ELSE members[n][j] + Total(members, j, n - 1)

\* c is the nearest integer to sum / n, an exact half going up
NearestHalfUp(c, sum, n) ==
  /\ 2 * n * c <= 2 * sum + n
  /\ 2 * sum + n < 2 * n * (c + 1)

\* C23: the new centroid of a non-empty cluster is, per channel, the mean
\* of the channel over the points assigned to the cluster in the same
\* cycle, rounded to the nearest integer, exact halves up.
C23_RoundedMeanOfMembers ==
  [][ \A r \in Runs :
        (CycleOf(r) /\ Len(colors) > 0) =>
          \A i \in 1..k :
            LET members == MembersOf(i, centroids[r])
            IN Len(members) > 0 =>
                 \A j \in 1..3 :
                   NearestHalfUp(centroids'[r][i][j],
                                 Total(members, j, Len(members)),
                                 Len(members)) ]_vars

\* a centroid is the mean of two points that lies at an exact half
C23_Witness ==
  /\ pc[1] = "loop"
  /\ iterations[1] > 0
  /\ \E i \in DOMAIN clusters[1] :
       /\ Len(clusters[1][i]) = 2
       /\ (clusters[1][i][1][1] + clusters[1][i][2][1]) % 2 = 1
       /\ 2 * centroids[1][i][1]
            = clusters[1][i][1][1] + clusters[1][i][2][1] + 1

\* C24: change is true after a cycle exactly when some channel of some
\* centroid differs from its value before the cycle; no cycle follows one
\* that left every centroid as it was, and the loop is not left while
\* change is true before the 20th cycle.
C24_StopsExactlyOnNoChange ==
  [][ \A r \in Runs :
        Len(colors) > 0 =>
          /\ CycleOf(r) =>
               /\ change[r]
               /\ change'[r] = (centroids'[r] # centroids[r])
          /\ (pc[r] = "loop" /\ pc'[r] = "map") =>
               \/ ~change[r]
               \/ iterations[r] = maxIterations
          /\ (pc[r] = "loop" /\ iterations[r] > 0 /\ ~change[r]) =>
               pc'[r] = "map" ]_vars

\* a run whose centroids moved has stopped after the first cycle that left
\* them as they were
C24_Witness ==
  /\ pc[1] = "done"
  /\ ~change[1]
  /\ iterations[1] >= 2
  /\ k >= 2

\* C28: each returned count is the number of points whose nearest returned
\* centroid, the lowest index on ties, is that entry's.
C28_CountsMatchReturnedCentroids ==
  \A r \in Runs :
    (Returned(r) /\ Len(colors) > 0) =>
      \A i \in DOMAIN clustered[r] :
        clustered[r][i].count
          = Len(MembersOf(i, [j \in DOMAIN clustered[r] |->
                                clustered[r][j].color]))

\* C28 as the code has it: each returned count is the size of the cluster
\* of the last cycle, which holds the points whose nearest centroid, the
\* lowest index on ties, was that entry's before the last update; the
\* returned colours are the centroids after it, so the counts are the
\* assignment to the returned centroids when the loop converged.
C28_CountsAreLastAssignment ==
  [][ \A r \in Runs :
        Len(colors) > 0 =>
          /\ CycleOf(r) =>
               /\ \A i \in 1..k :
                    Len(clusters'[r][i]) = Len(MembersOf(i, centroids[r]))
               /\ ~change'[r] =>
                    \A i \in 1..k :
                      Len(clusters'[r][i]) = Len(MembersOf(i, centroids'[r]))
          /\ (pc[r] = "map" /\ Returned(r)') =>
               /\ Len(clustered'[r]) = k
               /\ \A i \in 1..k :
                    /\ clustered'[r][i].count = Len(clusters[r][i])
                    /\ clustered'[r][i].color = centroids[r][i] ]_vars

\* a run stopped at the cap has returned a count that is not the number of
\* points nearest to the returned colour
C28_Witness ==
  /\ pc[1] = "done"
  /\ iterations[1] = maxIterations
  /\ change[1]
  /\ \E i \in DOMAIN clustered[1] :
       clustered[1][i].count
         # Len(MembersOf(i, [j \in DOMAIN clustered[1] |->
                               clustered[1][j].color]))

\* C29: the colorKey values of the entries of a returned palette are
\* pairwise distinct.
C29_ColorKeysDistinct ==
  \A r \in Runs :
    pc[r] = "done" =>
      \A i, j \in DOMAIN palette[r] :
        i # j => palette[r][i].colorKey # palette[r][j].colorKey

(***************************************************************************)
(* getColorPalette, lines 185-249.                                         *)
(***************************************************************************)
\* the pixel buffers of the tests: 40 red, 40 green and 40 blue pixels, and
\* the two pixels of the proxy test
PixelsOf(point, n) ==
  [i \in 1..(4 * n) |->
     IF i % 4 = 0 THEN 255 ELSE point[((i - 1) % 4) + 1]]

TestDataRGB ==
  PixelsOf(<<255, 0, 0>>, 40) \o PixelsOf(<<0, 255, 0>>, 40)
    \o PixelsOf(<<0, 0, 255>>, 40)

TestDataProxy == << 255, 0, 0, 255, 0, 255, 0, 255 >>

\* what the canvas read of a loaded image can give
PixelReads ==
  { ReadData(TestDataRGB), ReadData(TestDataProxy), ReadNoContext,
    ReadRefused }

InitGCP ==
  /\ colors = <<>>
  /\ k = DefaultK
  /\ InitRuns
  /\ InitCalls
  /\ InitImage
  /\ InitHook
  /\ InitLegacy

\* a plausible slip: the handlers stay on the image; a promise that is
\* settled ignores a second resolve or reject
Settle_keepHandlers(c, state, with) ==
  /\ UNCHANGED <<onload, onerror>>
  /\ promise' = [promise EXCEPT
                   ![c] = IF @ \in {"resolved", "rejected"} THEN @ ELSE state]
  /\ settled' = [settled EXCEPT
                   ![c] = IF promise[c] \in {"resolved", "rejected"}
                          THEN @
                          ELSE with]

\* handleSuccessCleanup, lines 211-215 (objectUrl is always null)
\* followed by resolve or reject
Settle(c, state, with) ==
  /\ onload' = [onload EXCEPT ![c] = FALSE]
  /\ onerror' = [onerror EXCEPT ![c] = FALSE]
  /\ promise' = [promise EXCEPT ![c] = state]
  /\ settled' = [settled EXCEPT ![c] = with]

\* the call itself, lines 188-248, up to the return of the promise
Call(c, opts) ==
  /\ promise[c] = "idle"
  /\ options' = [options EXCEPT ![c] = opts]
  /\ LET src == opts.src
         imgElement == opts.imgElement
         target == TargetSrc(src, imgElement)
     IN IF MissingSource(src, imgElement)
        THEN /\ promise' = [promise EXCEPT ![c] = "rejected"]
             /\ settled' = [settled EXCEPT ![c] = Error(MsgMissing, <<>>)]
             /\ UNCHANGED <<targetSrc, onload, onerror, loadPending, srcLog>>
        ELSE IF Falsy(target)
        THEN /\ promise' = [promise EXCEPT ![c] = "rejected"]
             /\ settled' = [settled EXCEPT
                              ![c] = Error(MsgNoValidSrc, <<>>)]
             /\ targetSrc' = [targetSrc EXCEPT ![c] = target]
             /\ UNCHANGED <<onload, onerror, loadPending, srcLog>>
        ELSE /\ promise' = [promise EXCEPT ![c] = "pending"]
             /\ targetSrc' = [targetSrc EXCEPT ![c] = target]
             /\ onload' = [onload EXCEPT ![c] = TRUE]
             /\ onerror' = [onerror EXCEPT ![c] = TRUE]
             /\ srcLog' = [srcLog EXCEPT ![c] = <<target>>]
             /\ loadPending' = [loadPending EXCEPT ![c] = TRUE]
             /\ UNCHANGED settled
  /\ UNCHANGED <<isProxyTried, events, extractCalls, kmVars>>

\* a plausible slip: the catch block cleans up and does not reject
LoadEvent_noReject(c, read) ==
  /\ loadPending[c]
  /\ loadPending' = [loadPending EXCEPT ![c] = FALSE]
  /\ events' = [events EXCEPT ![c] = Append(@, "load")]
  /\ IF onload[c]
     THEN LET res == extractColorsFromImage(read, DefaultK)
          IN /\ extractCalls' = [extractCalls EXCEPT ![c] = @ + 1]
             /\ IF res.threw
                THEN /\ onload' = [onload EXCEPT ![c] = FALSE]
                     /\ onerror' = [onerror EXCEPT ![c] = FALSE]
                     /\ UNCHANGED <<promise, settled>>
                ELSE Settle(c, "resolved", res.value)
     ELSE UNCHANGED <<extractCalls, onload, onerror, promise, settled>>
  /\ UNCHANGED <<options, targetSrc, isProxyTried, srcLog, kmVars>>

\* the image of call c fires `load`; img.onload, lines 217-226
LoadEvent(c, read) ==
  /\ loadPending[c]
  /\ loadPending' = [loadPending EXCEPT ![c] = FALSE]
  /\ events' = [events EXCEPT ![c] = Append(@, "load")]
  /\ IF onload[c]
     THEN LET res == extractColorsFromImage(read, DefaultK)
          IN /\ extractCalls' = [extractCalls EXCEPT ![c] = @ + 1]
             /\ IF res.threw
                THEN Settle(c, "rejected", Error(res.error, <<>>))
                ELSE Settle(c, "resolved", res.value)
     ELSE UNCHANGED <<extractCalls, onload, onerror, promise, settled>>
  /\ UNCHANGED <<options, targetSrc, isProxyTried, srcLog, kmVars>>

\* a plausible slip: isProxyTried is declared outside the promise, one flag
\* for all calls
ErrorEvent_sharedFlag(c) ==
  /\ loadPending[c]
  /\ events' = [events EXCEPT ![c] = Append(@, "error")]
  /\ IF onerror[c]
     THEN IF ShouldProxy(isProxyTried[c], targetSrc[c])
          THEN /\ isProxyTried' = [d \in Calls |-> TRUE]
               /\ srcLog' = [srcLog EXCEPT
                               ![c] = Append(@, ProxyUrl(targetSrc[c]))]
               /\ UNCHANGED <<loadPending, onload, onerror, promise,
                              settled>>
          ELSE /\ Settle(c, "rejected",
                         Error(MsgLoadFailed, targetSrc[c]))
               /\ loadPending' = [loadPending EXCEPT ![c] = FALSE]
               /\ UNCHANGED <<isProxyTried, srcLog>>
     ELSE /\ loadPending' = [loadPending EXCEPT ![c] = FALSE]
          /\ UNCHANGED <<isProxyTried, srcLog, onload, onerror, promise,
                         settled>>
  /\ UNCHANGED <<options, targetSrc, extractCalls, kmVars>>

\* the image of call c fires `error`; img.onerror, lines 228-245
ErrorEvent(c) ==
  /\ loadPending[c]
  /\ events' = [events EXCEPT ![c] = Append(@, "error")]
  /\ IF onerror[c]
     THEN IF ShouldProxy(isProxyTried[c], targetSrc[c])
          THEN /\ isProxyTried' = [isProxyTried EXCEPT ![c] = TRUE]
               /\ srcLog' = [srcLog EXCEPT
                               ![c] = Append(@, ProxyUrl(targetSrc[c]))]
               /\ UNCHANGED <<loadPending, onload, onerror, promise,
                              settled>>
          ELSE /\ Settle(c, "rejected",
                         Error(MsgLoadFailed, targetSrc[c]))
               /\ loadPending' = [loadPending EXCEPT ![c] = FALSE]
               /\ UNCHANGED <<isProxyTried, srcLog>>
     ELSE /\ loadPending' = [loadPending EXCEPT ![c] = FALSE]
          /\ UNCHANGED <<isProxyTried, srcLog, onload, onerror, promise,
                         settled>>
  /\ UNCHANGED <<options, targetSrc, extractCalls, kmVars>>

NextGCP ==
  /\ \E c \in Calls :
       \/ \E opts \in OptionValues : Call(c, opts)
       \/ \E read \in PixelReads : LoadEvent(c, read)
       \/ ErrorEvent(c)
  /\ UNCHANGED <<imgVars, hookVars, legacyVars>>

SpecGCP == InitGCP /\ [][NextGCP]_vars

\* everything call c owns: its promise, its Image with its handlers, its
\* retry flag and what it has seen and done
CallState(c) ==
  << promise[c], options[c], targetSrc[c], isProxyTried[c], onload[c],
     onerror[c], loadPending[c], settled[c], srcLog[c], events[c],
     extractCalls[c] >>

\* C25: two calls of getColorPalette in progress together share no mutable
\* state: a step of one call (the call itself, a load or an error event of
\* its image) leaves everything the other call owns as it was, and a
\* settled call keeps its outcome, so each call settles as it would alone.
C25_CallsShareNoState ==
  [][ \A c \in Calls :
        /\ (\E d \in Calls : d # c /\ CallState(d)' # CallState(d)) =>
             CallState(c)' = CallState(c)
        /\ promise[c] \in {"resolved", "rejected"} =>
             /\ promise'[c] = promise[c]
             /\ settled'[c] = settled[c] ]_vars

\* both calls are in progress, one of them after a switch to the proxy,
\* the other without one
C25_Witness ==
  /\ promise[1] = "pending"
  /\ promise[2] = "pending"
  /\ StartsWithHttp(targetSrc[1])
  /\ StartsWithHttp(targetSrc[2])
  /\ ~isProxyTried[1]
  /\ isProxyTried[2]
  /\ loadPending[1]
  /\ loadPending[2]

(***************************************************************************)
(* getColorPalette with an image that goes on firing events after its call *)
(* has settled: whatever dispatches them, each event runs the handler that *)
(* is on the image at that moment.                                         *)
(***************************************************************************)
\* the events dispatched on one image
MaxEvents == 3

SettledStates == {"resolved", "rejected"}

\* the image of call c exists, its call has settled and it is not loading
Late(c) ==
  /\ promise[c] \in SettledStates
  /\ srcLog[c] # <<>>
  /\ ~loadPending[c]
  /\ Len(events[c]) < MaxEvents

\* a `load` event on the image of a settled call: img.onload, lines 217-226,
\* when it is still set
LateLoadEvent(c, read) ==
  /\ Late(c)
  /\ events' = [events EXCEPT ![c] = Append(@, "load")]
  /\ IF onload[c]
     THEN LET res == extractColorsFromImage(read, DefaultK)
          IN /\ extractCalls' = [extractCalls EXCEPT ![c] = @ + 1]
             /\ IF res.threw
                THEN Settle(c, "rejected", Error(res.error, <<>>))
                ELSE Settle(c, "resolved", res.value)
     ELSE UNCHANGED <<extractCalls, onload, onerror, promise, settled>>
  /\ UNCHANGED <<options, targetSrc, isProxyTried, srcLog, loadPending,
                 kmVars>>

\* an `error` event on the image of a settled call: img.onerror, lines
\* 228-245, when it is still set
LateErrorEvent(c) ==
  /\ Late(c)
  /\ events' = [events EXCEPT ![c] = Append(@, "error")]
  /\ IF onerror[c]
     THEN IF ShouldProxy(isProxyTried[c], targetSrc[c])
          THEN /\ isProxyTried' = [isProxyTried EXCEPT ![c] = TRUE]
               /\ srcLog' = [srcLog EXCEPT
                               ![c] = Append(@, ProxyUrl(targetSrc[c]))]
               /\ loadPending' = [loadPending EXCEPT ![c] = TRUE]
               /\ UNCHANGED <<onload, onerror, promise, settled>>
          ELSE /\ Settle(c, "rejected",
                         Error(MsgLoadFailed, targetSrc[c]))
               /\ UNCHANGED <<isProxyTried, srcLog, loadPending>>
     ELSE UNCHANGED <<isProxyTried, srcLog, loadPending, onload, onerror,
                      promise, settled>>
  /\ UNCHANGED <<options, targetSrc, extractCalls, kmVars>>

NextGCPLate ==
  /\ \E c \in Calls :
       \/ \E opts \in OptionValues : Call(c, opts)
       \/ \E read \in PixelReads : LoadEvent(c, read)
       \/ ErrorEvent(c)
       \/ \E read \in PixelReads : LateLoadEvent(c, read)
       \/ LateErrorEvent(c)
  /\ UNCHANGED <<imgVars, hookVars, legacyVars>>

SpecGCPLate == InitGCP /\ [][NextGCPLate]_vars

\* C32: the promise of a call is settled at most once: once it is resolved
\* or rejected, its state and its value stay as they are; whenever it is
\* settled, img.onload and img.onerror are null, so an event dispatched on
\* the image afterwards runs no extraction, assigns no src and starts no
\* retry.
C32_SettledOnceHandlersCleared ==
  [][ \A c \in Calls :
        /\ promise'[c] \in SettledStates =>
             /\ ~onload'[c]
             /\ ~onerror'[c]
        /\ promise[c] \in SettledStates =>
             /\ promise'[c] = promise[c]
             /\ settled'[c] = settled[c]
             /\ extractCalls'[c] = extractCalls[c]
             /\ srcLog'[c] = srcLog[c]
             /\ isProxyTried'[c] = isProxyTried[c]
             /\ loadPending'[c] = loadPending[c] ]_vars

\* the image of a resolved call has fired an error and a load event after
\* the load event that resolved the call
C32_Witness ==
  /\ promise[1] = "resolved"
  /\ events[1] = <<"load", "error", "load">>
  /\ extractCalls[1] = 1
  /\ Len(srcLog[1]) = 1
  /\ ~isProxyTried[1]

(***************************************************************************)
(* getColorPalette with images whose load attempts all end: an image that  *)
(* is loading eventually fires `load` or `error`.                          *)
(***************************************************************************)
\* one of the two events of the image of call c
ImageEvent(c) ==
  /\ \/ \E read \in PixelReads : LoadEvent(c, read)
     \/ ErrorEvent(c)
  /\ UNCHANGED <<imgVars, hookVars, legacyVars>>

FairSpecGCP == SpecGCP /\ \A c \in Calls : WF_vars(ImageEvent(c))

\* C33: when every load attempt ends with a load or an error event, a call
\* of getColorPalette that returned a pending promise eventually resolves
\* or rejects it, and img.src is assigned at most twice by then: the source
\* and, after an error, the proxy.
C33_SettlesWithinTwoAttempts ==
  /\ [](\A c \in Calls : Len(srcLog[c]) <= 2)
  /\ \A c \in Calls :
       (promise[c] = "pending") ~> (promise[c] \in SettledStates)

\* a call has resolved at its second load attempt, the one through the proxy
C33_Witness ==
  /\ promise[1] = "resolved"
  /\ Len(srcLog[1]) = 2
  /\ events[1] = <<"error", "load">>
  /\ extractCalls[1] = 1

(***************************************************************************)
(* The hook useColorPalette: extract calls getColorPalette and suspends at *)
(* its await; the continuation runs once the promise has settled.          *)
(***************************************************************************)
MsgExtractFailed == "Failed to extract colors"

\* the text of err.message: its fixed part and the source put into it
MessageOf(err) == << err.message, err.source >>

\* a plausible slip: the message is stored as it is
CatchMessage_noFallback(err) == MessageOf(err)

\* line 19: (err as Error).message || 'Failed to extract colors'
CatchMessage(err) ==
  IF err.message = "" /\ err.source = <<>>
  THEN << MsgExtractFailed, <<>> >>
  ELSE MessageOf(err)

\* what the canvas read can give while the hook is in use: the reads of the
\* facade, and an exception that carries no message
HookReads == PixelReads \cup { ReadThrows("") }

InitHookSpec ==
  /\ colors = <<>>
  /\ k = DefaultK
  /\ InitRuns
  /\ InitCalls
  /\ InitImage
  /\ InitHook
  /\ InitLegacy

\* the code that calls extract runs to its end before a continuation runs,
\* so a call of extract finds ready only continuations of calls made by the
\* same code: calls that were rejected at once, whose image does not exist
SameTask == \A i \in DOMAIN jobs : events[jobs[i]] = <<>>

\* line 17, `await getColorPalette(options)`: the continuation of call c is
\* ready as soon as the promise is settled, after those that are ready
Await(c) ==
  jobs' = IF promise'[c] = "pending" THEN jobs ELSE Append(jobs, c)

\* an event of the image of call c is dispatched when no continuation is
\* ready; when its handler settles the promise that extract awaits, the
\* continuation of call c becomes ready
EventTask(c) ==
  /\ jobs = <<>>
  /\ jobs' = IF awaiting[c] /\ promise[c] = "pending"
                /\ promise'[c] # "pending"
             THEN <<c>>
             ELSE <<>>
  /\ UNCHANGED <<hookColors, loading, hookError, awaiting, invoked>>

\* a plausible slip: setError(null) is left out
Extract_keepError(c, opts) ==
  /\ SameTask
  /\ loading' = TRUE
  /\ Call(c, opts)
  /\ awaiting' = [awaiting EXCEPT ![c] = TRUE]
  /\ invoked' = Append(invoked, c)
  /\ Await(c)
  /\ UNCHANGED <<hookColors, hookError>>

\* extract(options) up to its await, lines 14-17
Extract(c, opts) ==
  /\ SameTask
  /\ loading' = TRUE
  /\ hookError' = null
  /\ Call(c, opts)
  /\ awaiting' = [awaiting EXCEPT ![c] = TRUE]
  /\ invoked' = Append(invoked, c)
  /\ Await(c)
  /\ UNCHANGED hookColors

\* a plausible slip: setLoading(false) sits in the catch block, not in a
\* finally block
Resume_noFinally(c) ==
  /\ awaiting[c]
  /\ promise[c] \in {"resolved", "rejected"}
  /\ jobs # <<>>
  /\ Head(jobs) = c
  /\ jobs' = Tail(jobs)
  /\ awaiting' = [awaiting EXCEPT ![c] = FALSE]
  /\ IF promise[c] = "resolved"
     THEN /\ hookColors' = settled[c]
          /\ UNCHANGED <<hookError, loading>>
     ELSE /\ hookError' = CatchMessage(settled[c])
          /\ loading' = FALSE
          /\ UNCHANGED hookColors
  /\ UNCHANGED <<invoked, kmVars, callVars>>

\* a plausible change: the catch block also drops the palette
Resume_resetColors(c) ==
  /\ awaiting[c]
  /\ promise[c] \in {"resolved", "rejected"}
  /\ jobs # <<>>
  /\ Head(jobs) = c
  /\ jobs' = Tail(jobs)
  /\ awaiting' = [awaiting EXCEPT ![c] = FALSE]
  /\ IF promise[c] = "resolved"
     THEN /\ hookColors' = settled[c]
          /\ UNCHANGED hookError
     ELSE /\ hookError' = CatchMessage(settled[c])
          /\ hookColors' = null
  /\ loading' = FALSE
  /\ UNCHANGED <<invoked, kmVars, callVars>>

\* the continuation of extract after the promise of call c has settled,
\* lines 17-23
Resume(c) ==
  /\ awaiting[c]
  /\ promise[c] \in {"resolved", "rejected"}
  /\ jobs # <<>>
  /\ Head(jobs) = c
  /\ jobs' = Tail(jobs)
  /\ awaiting' = [awaiting EXCEPT ![c] = FALSE]
  /\ IF promise[c] = "resolved"
     THEN /\ hookColors' = settled[c]
          /\ UNCHANGED hookError
     ELSE /\ hookError' = CatchMessage(settled[c])
          /\ UNCHANGED hookColors
  /\ loading' = FALSE
  /\ UNCHANGED <<invoked, kmVars, callVars>>

NextHook ==
  /\ \E c \in Calls :
       \/ \E opts \in OptionValues : Extract(c, opts)
       \/ \E read \in HookReads : LoadEvent(c, read) /\ EventTask(c)
       \/ ErrorEvent(c) /\ EventTask(c)
       \/ Resume(c)
  /\ UNCHANGED <<imgVars, legacyVars>>

SpecHook == InitHookSpec /\ [][NextHook]_vars

\* a settled promise always gets its continuation run
FairSpecHook ==
  SpecHook /\ \A c \in Calls : WF_vars(Resume(c) /\ UNCHANGED <<imgVars, legacyVars>>)

(***************************************************************************)
(* Properties of useColorPalette.                                          *)
(***************************************************************************)
\* extract has been called for call c
Invoked(c) == promise[c] # "idle"

\* the continuation of call c has run
Resumed(c) == Invoked(c) /\ ~awaiting[c]

\* c is the only call of extract so far
SingleCall(c) == \A d \in Calls : d # c => ~Invoked(d)

\* C11: the hook starts with colors = null, loading = false, error = null;
\* a call of extract sets loading = true and error = null, and they stay so
\* until the continuation of the call runs, whether or not the request has
\* settled by then.
C11_StartsIdleExtractSetsLoading ==
  /\ hookColors = null /\ loading = FALSE /\ hookError = null
  /\ [][ \A c \in Calls :
           /\ (~Invoked(c) /\ Invoked(c)') =>
                /\ loading' = TRUE
                /\ hookError' = null
                /\ awaiting'[c]
           /\ (SingleCall(c)' /\ awaiting'[c]) =>
                /\ loading' = TRUE
                /\ hookError' = null ]_vars

\* a second call of extract, made after the first one failed, is pending
C11_Witness ==
  /\ Resumed(1)
  /\ promise[1] = "rejected"
  /\ awaiting[2]
  /\ promise[2] = "pending"
  /\ loading
  /\ hookError = null

\* C12: when the request of an extract call resolves, its continuation
\* runs, and it leaves loading = false and colors equal to the resolved
\* palette; the call being the only one, error is null then.
C12_ResolvedSetsColors ==
  /\ [][ \A c \in Calls :
           (awaiting[c] /\ ~awaiting'[c] /\ promise[c] = "resolved") =>
             /\ loading' = FALSE
             /\ hookColors' = settled[c]
             /\ SingleCall(c) => hookError' = null ]_vars
  /\ \A c \in Calls :
       (awaiting[c] /\ promise[c] = "resolved") ~> Resumed(c)

\* the only call has resolved and its continuation has run
C12_Witness ==
  /\ Resumed(1)
  /\ SingleCall(1)
  /\ promise[1] = "resolved"
  /\ hookColors = settled[1]
  /\ Len(hookColors) = DefaultK
  /\ loading = FALSE
  /\ hookError = null

\* no call of extract has yet set colors
NoSuccessYet == \A c \in Calls : Resumed(c) => promise[c] = "rejected"

\* C13: when the request of an extract call rejects, its continuation runs,
\* and it leaves loading = false and error equal to the message of the
\* rejection, or to 'Failed to extract colors' when that message is empty;
\* neither the call nor the continuation changes colors, which is null as
\* long as no extraction has succeeded.
C13_RejectedSetsError ==
  /\ [][ /\ \A c \in Calls :
              /\ (awaiting[c] /\ ~awaiting'[c] /\ promise[c] = "rejected") =>
                   /\ loading' = FALSE
                   /\ hookError'
                        = IF settled[c].message = ""
                          THEN << "Failed to extract colors", <<>> >>
                          ELSE << settled[c].message, settled[c].source >>
                   /\ hookColors' = hookColors
              /\ (~Invoked(c) /\ Invoked(c)') => hookColors' = hookColors
         /\ NoSuccessYet' => hookColors' = null ]_vars
  /\ \A c \in Calls :
       (awaiting[c] /\ promise[c] = "rejected") ~> Resumed(c)

\* a rejection without a message has been reported with the fallback text,
\* after an earlier extraction had succeeded
C13_Witness ==
  /\ Resumed(1)
  /\ promise[1] = "resolved"
  /\ Resumed(2)
  /\ promise[2] = "rejected"
  /\ settled[2].message = ""
  /\ hookError = << MsgExtractFailed, <<>> >>
  /\ hookColors = settled[1]
  /\ loading = FALSE

\* C30: loading is true in every state in which an extract call is still
\* pending, also when several calls overlap and one of them has settled.
C30_LoadingWhilePending ==
  (\E c \in Calls : awaiting[c]) => loading = TRUE

\* the call of extract made last
LastInvoked == invoked[Len(invoked)]

\* no call of extract is suspended at its await
Quiescent == \A c \in Calls : ~awaiting[c]

\* C31: once the continuations of all extract calls have run, colors and
\* error are those of the call of extract made last: its palette with
\* error = null when its request resolved, its message when it rejected,
\* whatever the order in which the requests settled.
C31_LastInvokedWins ==
  (Quiescent /\ invoked # <<>>) =>
    IF promise[LastInvoked] = "resolved"
    THEN /\ hookColors = settled[LastInvoked]
         /\ hookError = null
    ELSE hookError = CatchMessage(settled[LastInvoked])

\* C34 as stated: with no extract call pending, colors and error are not
\* both non-null.
C34_NeverPaletteAndError ==
  Quiescent => ~(hookColors # null /\ hookError # null)

\* some extract call has run to its end with a palette
SomeSucceeded == \E c \in Calls : Resumed(c) /\ promise[c] = "resolved"

\* some extract call has run to its end with an error
SomeFailed == \E c \in Calls : Resumed(c) /\ promise[c] = "rejected"

\* C34: with no extract call pending, colors is non-null exactly when some
\* extract call has succeeded, and error is non-null only when some extract
\* call has failed; a palette and an error message are held together only
\* after one call succeeded and another failed.
C34_PaletteAndErrorOnlyAfterBoth ==
  Quiescent =>
    /\ hookColors # null <=> SomeSucceeded
    /\ hookError # null => SomeFailed

\* the first call succeeded, the second one then failed: the palette of the
\* first is held together with the message of the second
C34_Witness ==
  /\ Quiescent
  /\ invoked = <<1, 2>>
  /\ promise[1] = "resolved"
  /\ promise[2] = "rejected"
  /\ hookColors = settled[1]
  /\ hookError = CatchMessage(settled[2])

(***************************************************************************)
(* The front half of extractColorsFromImage, lines 149-162: the canvas is  *)
(* sized by resizeImage, its pixels are read and every 10th is sampled.    *)
(***************************************************************************)
\* the side lengths of the images handed in
ImageSides == {1, 2, 3, 7, 10, 100, 101, 150, 250}

\* what drawImage puts on the canvas is the browser's choice; the model
\* takes, for pixel p of the canvas (counted from 0), one of two patterns
\* whose pixels all differ from their neighbours
Patterns == {1, 2}

PatternRGB(pattern, p) ==
  IF pattern = 1
  THEN << p % 256, (p \div 256) % 256, (7 * p + 1) % 256 >>
  ELSE << 255 - (p % 256), (3 * p) % 256, (p \div 7) % 256 >>

\* the alpha channel of pixel p
PatternAlpha(pattern, p) == IF pattern = 1 THEN 255 ELSE (11 * p) % 256

\* the Uint8ClampedArray of n pixels, 4 elements (R, G, B, A) per pixel
PatternData(pattern, n) ==
  [i \in 1..(4 * n) |->
     LET p == (i - 1) \div 4
         ch == ((i - 1) % 4) + 1
     IN IF ch = 4 THEN PatternAlpha(pattern, p)
        ELSE PatternRGB(pattern, p)[ch]]

InitImg ==
  /\ colors = <<>>
  /\ k = DefaultK
  /\ InitRuns
  /\ InitCalls
  /\ InitHook
  /\ InitLegacy
  /\ imgSize \in [width : ImageSides, height : ImageSides]
  /\ canvasSize = [width |-> 0, height |-> 0]
  /\ data = <<>>
  /\ sampled = <<>>
  /\ ipc = "resize"

\* line 150: resizeImage(img, canvas, 100, 100)
Resize ==
  /\ ipc = "resize"
  /\ canvasSize' = resizeImage(imgSize.width, imgSize.height, MaxSide,
                               MaxSide)
  /\ ipc' = "read"
  /\ UNCHANGED <<imgSize, data, sampled>>

\* lines 152-154: getImageData(0, 0, canvas.width, canvas.height)
ReadPixels(pattern) ==
  /\ ipc = "read"
  /\ data' = PatternData(pattern, canvasSize.width * canvasSize.height)
  /\ ipc' = "sample"
  /\ UNCHANGED <<imgSize, canvasSize, sampled>>

\* lines 155-162
Sample ==
  /\ ipc = "sample"
  /\ sampled' = SamplePixels(data)
  /\ ipc' = "done"
  /\ UNCHANGED <<imgSize, canvasSize, data>>

NextImg ==
  /\ \/ Resize
     \/ \E pattern \in Patterns : ReadPixels(pattern)
     \/ Sample
  /\ UNCHANGED <<kmVars, callVars, hookVars, legacyVars>>

SpecImg == InitImg /\ [][NextImg]_vars

(***************************************************************************)
(* Properties of the resize and sampling steps.                            *)
(***************************************************************************)
\* resizeImage has set the canvas size
Resized == ipc # "resize"

\* C14: for every image of width >= 1 and height >= 1 the canvas set by
\* resizeImage(img, canvas, 100, 100) is at most 100 wide and 100 high.
C14_CanvasWithinBounds ==
  Resized =>
    /\ canvasSize.width <= MaxSide
    /\ canvasSize.height <= MaxSide

Max(a, b) == IF a >= b THEN a ELSE b
Min(a, b) == IF a <= b THEN a ELSE b

\* the nearest integer to a / b, halves up
RoundDiv(a, b) == CHOOSE q \in 0..a : 2 * b * q <= 2 * a + b /\ 2 * a + b < 2 * b * (q + 1)

\* C19: an image whose longer side exceeds 100 gets a canvas whose longer
\* side is 100 and whose shorter side is max(1, round(shorter * 100 /
\* longer)); an image with both sides <= 100 keeps its dimensions.
C19_ProportionalDownscale ==
  Resized =>
    LET longer == Max(imgSize.width, imgSize.height)
        shorter == Min(imgSize.width, imgSize.height)
    IN IF longer > MaxSide
       THEN /\ Max(canvasSize.width, canvasSize.height) = MaxSide
            /\ Min(canvasSize.width, canvasSize.height)
                 = Max(1, RoundDiv(shorter * MaxSide, longer))
       ELSE canvasSize = imgSize

\* the number of pixels of the buffer
NumPixels == Len(data) \div 4

\* C20: from a buffer of N pixels the sampler produces ceil(N / 10) points,
\* the j-th (from 0) being the (R, G, B) of pixel 10 * j, alpha left out, in
\* scan order.
C20_EveryTenthPixel ==
  ipc = "done" =>
    /\ 10 * Len(sampled) >= NumPixels
    /\ 10 * Len(sampled) < NumPixels + 10
    /\ \E pattern \in Patterns :
         /\ data = PatternData(pattern, NumPixels)
         /\ \A j \in DOMAIN sampled :
              sampled[j] = PatternRGB(pattern, 10 * (j - 1))

\* a buffer whose pixel count is no multiple of 10, with varying alpha, has
\* been sampled to several points
C20_Witness ==
  /\ ipc = "done"
  /\ NumPixels % 10 # 0
  /\ Len(sampled) >= 3
  /\ data[4] # 255

(***************************************************************************)
(* Properties of getColorPalette.                                          *)
(***************************************************************************)
\* the assignments of the proxy URL to img.src in call c
ProxySwitches(c) ==
  { i \in DOMAIN srcLog[c] : srcLog[c][i] = ProxyUrl(targetSrc[c]) }

\* the load through the proxy has failed in call c
ProxiedLoadFailed(c) ==
  /\ Len(srcLog[c]) = 2
  /\ Len(events[c]) >= 2
  /\ events[c][2] = "error"

\* C6: in one call img.src is switched to the proxy URL at most once, and
\* when the proxied load fails too the promise is rejected without
\* extractColorsFromImage ever having been called.
C6_ProxyAtMostOnce ==
  \A c \in Calls :
    /\ Cardinality(ProxySwitches(c)) <= 1
    /\ Len(srcLog[c]) <= 2
    /\ ProxiedLoadFailed(c) =>
         /\ promise[c] = "rejected"
         /\ extractCalls[c] = 0

\* the direct and the proxied load of call 1 have both failed
C6_Witness ==
  /\ ProxiedLoadFailed(1)
  /\ Cardinality(ProxySwitches(1)) = 1
  /\ events[1] = << "error", "error" >>

\* call c was rejected with the 'Failed to load image' error
LoadFailure(c) ==
  /\ promise[c] = "rejected"
  /\ settled[c].message = MsgLoadFailed

\* C7 as claimed: the 'Failed to load image' rejection comes only after the
\* direct and the proxied load have both failed, and one failed direct load
\* is followed by a proxy attempt, never by the rejection.
C7_RejectsOnlyAfterBothFailed ==
  \A c \in Calls :
    /\ LoadFailure(c) =>
         /\ events[c] = << "error", "error" >>
         /\ srcLog[c] = << targetSrc[c], ProxyUrl(targetSrc[c]) >>
    /\ events[c] = << "error" >> =>
         /\ promise[c] = "pending"
         /\ srcLog[c] = << targetSrc[c], ProxyUrl(targetSrc[c]) >>

\* C7 (amended): for a source that starts with 'http' the 'Failed to load
\* image' rejection comes only after the direct and the proxied load have
\* both failed, one failed direct load being followed by the proxy attempt;
\* for any other source the rejection follows the first failed load and the
\* proxy is never tried.
C7_RejectsAfterProxyForHttp ==
  \A c \in Calls :
    /\ LoadFailure(c) =>
         /\ settled[c].source = targetSrc[c]
         /\ IF StartsWithHttp(targetSrc[c])
            THEN /\ events[c] = << "error", "error" >>
                 /\ srcLog[c] = << targetSrc[c], ProxyUrl(targetSrc[c]) >>
            ELSE /\ events[c] = << "error" >>
                 /\ srcLog[c] = << targetSrc[c] >>
    /\ events[c] = << "error" >> =>
         IF StartsWithHttp(targetSrc[c])
         THEN /\ promise[c] = "pending"
              /\ loadPending[c]
              /\ srcLog[c] = << targetSrc[c], ProxyUrl(targetSrc[c]) >>
         ELSE LoadFailure(c)

\* one call was rejected after its direct and proxied loads failed, the
\* other, with a source that is not an http URL, after one failed load
C7_Witness ==
  /\ LoadFailure(1)
  /\ StartsWithHttp(targetSrc[1])
  /\ events[1] = << "error", "error" >>
  /\ LoadFailure(2)
  /\ targetSrc[2] = SrcLocal
  /\ events[2] = << "error" >>

\* C8: when the image of an http source loads and reading its pixels
\* throws while the proxy has not been tried, the call is not rejected but
\* retried through the proxy URL.
C8_ReadFailureRetriesProxy ==
  \A c \in Calls :
    (StartsWithHttp(targetSrc[c]) /\ events[c] = << "load" >>) =>
      \/ promise[c] = "resolved"
      \/ /\ promise[c] = "pending"
         /\ srcLog[c] = << targetSrc[c], ProxyUrl(targetSrc[c]) >>

\* call c was made with neither a source nor an image element
NoSourceGiven(c) ==
  /\ promise[c] # "idle"
  /\ Falsy(options[c].src)
  /\ Falsy(options[c].imgElement)

\* C9: a call with neither src nor imgElement is rejected with 'Please
\* provide either a source URL or an image element reference.' and starts
\* no image load, no proxy attempt and no extraction.
C9_MissingSourceRejected ==
  \A c \in Calls :
    NoSourceGiven(c) =>
      /\ promise[c] = "rejected"
      /\ settled[c] = Error(MsgMissing, <<>>)
      /\ srcLog[c] = <<>>
      /\ events[c] = <<>>
      /\ ~loadPending[c]
      /\ ~isProxyTried[c]
      /\ extractCalls[c] = 0

\* call 1 was made with no option at all, while call 2 went on to settle
C9_Witness ==
  /\ promise[1] = "rejected"
  /\ options[1] = [src |-> undefined, imgElement |-> undefined]
  /\ promise[2] = "resolved"

\* the proxy URL of the source https://a/1
ProxiedSrcHttps ==
  << "h", "t", "t", "p", "s", ":", "/", "/", "i", "m", "a", "g", "e", "s", ".", "w", "e", "s", "e", "r", "v", ".", "n", "l", "/", "?", "u", "r", "l", "=", "h", "t", "t", "p", "s", "%", "3", "A", "%", "2", "F", "%", "2", "F", "a", "%", "2", "F", "1" >>

\* C10: the source that is loaded, and proxied after a failure, is src when
\* src is given and non-empty, whether or not imgElement is given too;
\* imgElement.src is loaded only when src is absent or empty.
C10_SrcHasPriority ==
  \A c \in Calls :
    Len(srcLog[c]) >= 1 =>
      /\ IF Falsy(options[c].src)
         THEN /\ ~Falsy(options[c].imgElement)
              /\ srcLog[c][1] = ElementSrc(options[c].imgElement)
         ELSE srcLog[c][1] = options[c].src
      /\ Len(srcLog[c]) >= 2 =>
           /\ srcLog[c][2] = ProxyPrefix \o encodeURIComponent(srcLog[c][1])
           /\ options[c].src = SrcHttps => srcLog[c][2] = ProxiedSrcHttps

\* a call given both src and an image element of another source has
\* loaded src and then its proxy URL
C10_Witness ==
  /\ options[1].src = SrcHttps
  /\ options[1].imgElement = ImgElement(ElemHttp)
  /\ srcLog[1] = << SrcHttps, ProxiedSrcHttps >>

(***************************************************************************)
(* The legacy variant, lines 251-411: kMeansClustering with random seeds   *)
(* and no iteration cap, and the hook useColorPalette({ src, imgRef }).    *)
(***************************************************************************)
MaxLegacyLen == 3
MaxLegacyK == 3

\* stands for JavaScript's NaN in a channel or a distance: no channel value
\* and no distance is negative
NaN == -1

\* a === b on numbers: false when either is NaN
StrictEquals(a, b) == a # NaN /\ b # NaN /\ a = b

\* lines 292-298; NaN when a channel of either colour is NaN
LegacyDistance(color1, color2) ==
  IF \E j \in 1..3 : color1[j] = NaN \/ color2[j] = NaN
  THEN NaN
  ELSE calculateDistance(color1, color2)

\* a plausible slip: the mean of an empty cluster is taken as black
LegacyMean_zero(cluster) ==
  IF Len(cluster) = 0 THEN <<0, 0, 0>> ELSE calculateMean(cluster)

\* lines 300-306: for an empty cluster sum / cluster.length is 0 / 0, NaN,
\* and Math.round(NaN) is NaN
LegacyMean(cluster) ==
  IF Len(cluster) = 0 THEN <<NaN, NaN, NaN>> ELSE calculateMean(cluster)

RECURSIVE LegacyClosestScan(_, _, _, _, _)
\* lines 315-323: distance < minDistance is false for a NaN distance
LegacyClosestScan(color, cents, i, minDistance, closestCentroid) ==
  IF i > Len(cents) THEN closestCentroid
  ELSE LET distance == LegacyDistance(color, cents[i])
       IN IF distance # NaN /\ distance < minDistance
          THEN LegacyClosestScan(color, cents, i + 1, distance, i)
          ELSE LegacyClosestScan(color, cents, i + 1, minDistance,
                                 closestCentroid)

\* lines 313-326: every point is pushed to one cluster
LegacyAssign(points, cents) ==
  [i \in DOMAIN cents |->
     SelectSeq(points,
               LAMBDA color :
                 LegacyClosestScan(color, cents, 1, Infinity, 1) = i)]

\* lines 328-330: !centroids.every(... value === newCentroids[index][i])
LegacyChanged(cents, newCentroids) ==
  \E index \in DOMAIN cents :
    \E i \in 1..3 :
      ~StrictEquals(cents[index][i], newCentroids[index][i])

\* centroid.every on a centroid that is undefined throws a TypeError
LegacyThrows(cents) ==
  \E index \in DOMAIN cents : cents[index] = undefined

\* one cycle of while (change), lines 312-332
LegacyLoopBody(points, cents) ==
  LET groups == LegacyAssign(points, cents)
      newCentroids == [i \in DOMAIN groups |-> LegacyMean(groups[i])]
  IN [centroids |-> newCentroids, clusters |-> groups,
      change |-> LegacyChanged(cents, newCentroids)]

\* the colours the legacy PointSets are built from
LegacyPalette == { <<255, 0, 0>>, <<0, 0, 0>>, <<1, 0, 0>> }

LegacyPointSets == UNION { [1..n -> LegacyPalette] : n \in 0..MaxLegacyLen }

\* a direct call kMeansClustering(colors, k)
InitLegacyCall ==
  /\ lcolors \in LegacyPointSets
  /\ lk \in 1..MaxLegacyK
  /\ lpc = "seed"
  /\ lcentroids = <<>>
  /\ lclusters = <<>>
  /\ lchange = TRUE
  /\ lresult = <<>>
  /\ InitLegacyHook
  /\ colors = <<>>
  /\ k = DefaultK
  /\ InitRuns
  /\ InitCalls
  /\ InitImage
  /\ InitHook

\* getRandomCentroids, lines 283-290, and lines 308-310: each seed is the
\* point at a random index; colors[0] of an empty PointSet is undefined
LegacySeed ==
  /\ lpc = "seed"
  /\ IF Len(lcolors) = 0
     THEN lcentroids' = [i \in 1..lk |-> undefined]
     ELSE \E randomIndex \in [1..lk -> DOMAIN lcolors] :
            lcentroids' = [i \in 1..lk |-> lcolors[randomIndex[i]]]
  /\ lclusters' = [i \in 1..lk |-> <<>>]
  /\ lchange' = TRUE
  /\ lpc' = "loop"
  /\ UNCHANGED <<lcolors, lk, lresult, legacyHookVars>>

\* one cycle of the loop, lines 312-332
LegacyIterate ==
  /\ lpc = "loop"
  /\ lchange
  /\ IF LegacyThrows(lcentroids)
     THEN /\ lpc' = "threw"
          /\ UNCHANGED <<lcentroids, lclusters, lchange>>
     ELSE LET st == LegacyLoopBody(lcolors, lcentroids)
          IN /\ lcentroids' = st.centroids
             /\ lclusters' = st.clusters
             /\ lchange' = st.change
             /\ UNCHANGED lpc
  /\ UNCHANGED <<lcolors, lk, lresult, legacyHookVars>>

\* lines 334-338
LegacyReturn ==
  /\ lpc = "loop"
  /\ ~lchange
  /\ lresult' = MapEntries(lcentroids, lclusters)
  /\ lpc' = "returned"
  /\ UNCHANGED <<lcolors, lk, lcentroids, lclusters, lchange,
                 legacyHookVars>>

LegacyStep == LegacySeed \/ LegacyIterate \/ LegacyReturn

NextLegacyKM ==
  LegacyStep /\ UNCHANGED <<kmVars, callVars, imgVars, hookVars>>

SpecLegacyKM == InitLegacyCall /\ [][NextLegacyKM]_vars

(***************************************************************************)
(* The legacy hook, lines 373-410.                                         *)
(***************************************************************************)
MsgLegacyMissing == "Please provide either a source URL or an image reference"

\* processImageColors: k = 5
LegacyK == 5

\* a React ref object and its current property
RefObject(current) == <<"RefObject", current>>
Current(imgRef) == IF imgRef = undefined THEN undefined ELSE imgRef[2]

\* the props the hook is rendered with
LegacyProps ==
  [src : {undefined, <<>>, SrcLocal},
   imgRef : {undefined, RefObject(null), RefObject(ImgElement(<<>>)),
             RefObject(ImgElement(ElemHttp))}]

\* a plausible slip: the guard is left out
LegacyMissing_never(src, imgRef) == FALSE

\* line 384: !src && !imgRef (a ref object is truthy)
LegacyMissing(src, imgRef) == Falsy(src) /\ imgRef = undefined

\* a canvas of 20 pixels, 10 red and 10 blue
TwoColourData == PixelsOf(<<255, 0, 0>>, 10) \o PixelsOf(<<0, 0, 255>>, 10)

\* what the canvas read of the legacy hook can give
LegacyReads ==
  { ReadData(TestDataProxy), ReadData(TwoColourData), ReadNoContext,
    ReadRefused }

InitLegacyHookSpec ==
  /\ props \in LegacyProps
  /\ phase = "initial"
  /\ legacyColors = null
  /\ console = <<>>
  /\ legacySrcLog = <<>>
  /\ legacyOnload = FALSE
  /\ legacyLoadPending = FALSE
  /\ effectRuns = 0
  /\ stale = <<>>
  /\ InitLegacyKM
  /\ colors = <<>>
  /\ k = DefaultK
  /\ InitRuns
  /\ InitCalls
  /\ InitImage
  /\ InitHook

\* the effect of the first render, lines 383-402
LegacyEffect ==
  /\ phase = "initial"
  /\ phase' = "mounted"
  /\ IF LegacyMissing(props.src, props.imgRef)
     THEN /\ console' = Append(console, MsgLegacyMissing)
          /\ UNCHANGED <<legacySrcLog, legacyOnload, legacyLoadPending>>
     ELSE LET current == Current(props.imgRef)
          IN /\ IF ~Falsy(props.src)
                THEN /\ legacySrcLog' = Append(legacySrcLog, props.src)
                     /\ legacyLoadPending' = TRUE
                ELSE /\ UNCHANGED legacySrcLog
                     /\ legacyLoadPending'
                          = (~Falsy(current) /\ ElementSrc(current) # <<>>)
             /\ legacyOnload' = TRUE
             /\ UNCHANGED console
  /\ effectRuns' = 1
  /\ UNCHANGED <<props, legacyColors, stale, legacyKMVars>>

\* the image fires `load`; handleImageLoad calls processImageColors, lines
\* 342-361, up to the call of kMeansClustering
LegacyLoad(read) ==
  /\ phase # "initial"
  /\ legacyLoadPending
  /\ lpc = "idle"
  /\ legacyLoadPending' = FALSE
  /\ IF legacyOnload /\ read.kind # "refused"
     THEN /\ lcolors' = IF read.kind = "data" THEN SamplePixels(read.data)
                        ELSE <<>>
          /\ lk' = LegacyK
          /\ lpc' = "seed"
     ELSE UNCHANGED <<lcolors, lk, lpc>>
  /\ UNCHANGED <<lcentroids, lclusters, lchange, lresult, props, phase,
                 legacyColors, console, legacySrcLog, legacyOnload,
                 effectRuns, stale>>

\* line 363: setColors(clusteredColors.sort(...)), the end of the handler
LegacySetColors ==
  /\ lpc = "returned"
  /\ legacyColors' = SortByCount(lresult)
  /\ lpc' = "idle"
  /\ UNCHANGED <<lcolors, lk, lcentroids, lclusters, lchange, lresult, props,
                 phase, console, legacySrcLog, legacyOnload,
                 legacyLoadPending, effectRuns, stale>>

\* the cleanup of the effect, lines 404-406
LegacyCleanup ==
  /\ phase = "mounted"
  /\ lpc \in {"idle", "threw"}
  /\ phase' = "unmounted"
  /\ legacyOnload' = FALSE
  /\ UNCHANGED <<props, legacyColors, console, legacySrcLog,
                 legacyLoadPending, effectRuns, stale, legacyKMVars>>

NextLegacyHook ==
  /\ \/ LegacyEffect
     \/ \E read \in LegacyReads : LegacyLoad(read)
     \/ LegacySeed
     \/ LegacyIterate
     \/ LegacyReturn
     \/ LegacySetColors
     \/ LegacyCleanup
  /\ UNCHANGED <<kmVars, callVars, imgVars, hookVars>>

SpecLegacyHook == InitLegacyHookSpec /\ [][NextLegacyHook]_vars

(***************************************************************************)
(* Properties of the legacy variant.                                       *)
(***************************************************************************)
\* the loop guard holds and a cycle leaves centroids, clusters and change
\* as they are: every further cycle does the same, the loop never ends
LegacyLoopsForever ==
  /\ lpc = "loop"
  /\ lchange
  /\ ~LegacyThrows(lcentroids)
  /\ LET st == LegacyLoopBody(lcolors, lcentroids)
     IN /\ st.centroids = lcentroids
        /\ st.clusters = lclusters
        /\ st.change

\* C26: the legacy kMeansClustering terminates for every non-empty
\* PointSet, every k >= 1 and every choice of the k random seeds: it never
\* reaches a state from which its loop runs forever.
C26_LegacyTerminates ==
  Len(lcolors) > 0 => ~LegacyLoopsForever

\* neither src nor imgRef is supplied
NothingSupplied == Falsy(props.src) /\ props.imgRef = undefined

\* C27: when neither src nor imgRef is supplied, the effect logs 'Please
\* provide either a source URL or an image reference', no image load is
\* started and no handler is set, and colors is null in every state.
C27_LegacyNothingSupplied ==
  NothingSupplied =>
    /\ legacyColors = null
    /\ legacySrcLog = <<>>
    /\ ~legacyLoadPending
    /\ ~legacyOnload
    /\ lpc = "idle"
    /\ phase = "initial" => console = <<>>
    /\ phase # "initial" => console = << MsgLegacyMissing >>

\* the hook rendered with an empty src and no imgRef has run its effect and
\* its cleanup
C27_Witness ==
  /\ props = [src |-> <<>>, imgRef |-> undefined]
  /\ phase = "unmounted"
  /\ console = << MsgLegacyMissing >>
  /\ legacyColors = null

(***************************************************************************)
(* The legacy hook rendered again with other props: the dependencies of    *)
(* the effect, line 407, have changed, so the cleanup of the previous run  *)
(* is called and the effect runs again.                                    *)
(***************************************************************************)
\* the runs of the effect
MaxEffectRuns == 2

\* the props of a later render
LegacyNextProps ==
  LegacyProps \cup { [src |-> SrcHttps, imgRef |-> undefined] }

\* a canvas of 50 pixels, 10 of each of five colours
FiveColourData ==
  PixelsOf(<<255, 0, 0>>, 10) \o PixelsOf(<<0, 255, 0>>, 10)
    \o PixelsOf(<<0, 0, 255>>, 10) \o PixelsOf(<<255, 255, 0>>, 10)
    \o PixelsOf(<<0, 0, 0>>, 10)

\* what the canvas read gives depends on the picture: the picture at
\* SrcHttps has five colours, the other pictures have two or cannot be read
PictureReads(url) ==
  IF url = SrcHttps
  THEN { ReadData(FiveColourData) }
  ELSE { ReadData(TwoColourData), ReadRefused }

\* line 389, the left operand of ||: the element the ref holds, if any
RefElement(p) == Current(p.imgRef)

\* line 389: the run of the effect with props p uses the element of the ref
UsesElement(p) ==
  /\ ~LegacyMissing(p.src, p.imgRef)
  /\ ~Falsy(RefElement(p))

\* line 389: the runs with props p and q use the same image, which only an
\* element held by the ref can be; `new Image()` is another image each time
SameImage(p, q) ==
  /\ UsesElement(p)
  /\ UsesElement(q)
  /\ RefElement(p) = RefElement(q)

\* a plausible slip: the effect returns no cleanup, the handler stays on
\* the image of the previous run
StaleImage_keepHandler(pending, handler) ==
  [pending |-> pending, onload |-> handler, fired |-> FALSE]

\* lines 404-406: the image of the previous run after its cleanup; it may
\* still be loading
StaleImage(pending, handler) ==
  [pending |-> pending, onload |-> FALSE, fired |-> FALSE]

\* the src of the image of the latest run: line 392 or the element's own
LegacyImageSrc ==
  IF ~Falsy(props.src) THEN props.src
  ELSE IF UsesElement(props) THEN ElementSrc(RefElement(props))
  ELSE <<>>

\* the hook is first rendered with src = SrcLocal
InitLegacyRerender ==
  /\ props = [src |-> SrcLocal, imgRef |-> undefined]
  /\ phase = "initial"
  /\ legacyColors = null
  /\ console = <<>>
  /\ legacySrcLog = <<>>
  /\ legacyOnload = FALSE
  /\ legacyLoadPending = FALSE
  /\ effectRuns = 0
  /\ stale = <<>>
  /\ InitLegacyKM
  /\ colors = <<>>
  /\ k = DefaultK
  /\ InitRuns
  /\ InitCalls
  /\ InitImage
  /\ InitHook

\* a render with other props: the cleanup of the previous run, lines
\* 404-406, then the effect, lines 383-402
LegacyRerender(next) ==
  /\ phase = "mounted"
  /\ lpc \in {"idle", "threw"}
  /\ next # props
  /\ effectRuns < MaxEffectRuns
  /\ effectRuns' = effectRuns + 1
  /\ props' = next
  /\ stale' = IF ~LegacyMissing(props.src, props.imgRef)
                 /\ ~SameImage(props, next)
              THEN Append(stale, StaleImage(legacyLoadPending, legacyOnload))
              ELSE stale
  /\ IF LegacyMissing(next.src, next.imgRef)
     THEN /\ console' = Append(console, MsgLegacyMissing)
          /\ legacyOnload' = FALSE
          /\ legacyLoadPending' = FALSE
          /\ UNCHANGED legacySrcLog
     ELSE /\ IF ~Falsy(next.src)
             THEN /\ legacySrcLog' = Append(legacySrcLog, next.src)
                  /\ legacyLoadPending' = TRUE
             ELSE /\ UNCHANGED legacySrcLog
                  /\ legacyLoadPending'
                       = IF SameImage(props, next)
                         THEN legacyLoadPending
                         ELSE /\ ~Falsy(RefElement(next))
                              /\ ElementSrc(RefElement(next)) # <<>>
          /\ legacyOnload' = TRUE
          /\ UNCHANGED console
  /\ UNCHANGED <<phase, legacyColors, legacyKMVars>>

\* the image of an earlier run fires `load`: its handler, if it still has
\* one, calls processImageColors
LegacyStaleLoad(i, read) ==
  /\ i \in DOMAIN stale
  /\ stale[i].pending
  /\ lpc = "idle"
  /\ stale' = [stale EXCEPT ![i] = [@ EXCEPT !.pending = FALSE,
                                             !.fired = TRUE]]
  /\ IF stale[i].onload /\ read.kind # "refused"
     THEN /\ lcolors' = IF read.kind = "data" THEN SamplePixels(read.data)
                        ELSE <<>>
          /\ lk' = LegacyK
          /\ lpc' = "seed"
     ELSE UNCHANGED <<lcolors, lk, lpc>>
  /\ UNCHANGED <<lcentroids, lclusters, lchange, lresult, props, phase,
                 legacyColors, console, legacySrcLog, legacyOnload,
                 legacyLoadPending, effectRuns>>

NextLegacyRerender ==
  /\ \/ LegacyEffect
     \/ \E next \in LegacyNextProps : LegacyRerender(next)
     \/ \E read \in PictureReads(LegacyImageSrc) : LegacyLoad(read)
     \/ \E i \in 1..MaxEffectRuns :
          \E read \in PictureReads(SrcLocal) : LegacyStaleLoad(i, read)
     \/ LegacySeed
     \/ LegacyIterate
     \/ LegacyReturn
     \/ LegacySetColors
     \/ LegacyCleanup
  /\ UNCHANGED <<kmVars, callVars, imgVars, hookVars>>

SpecLegacyRerender == InitLegacyRerender /\ [][NextLegacyRerender]_vars

\* C35: in the legacy hook used with src, an image made by an earlier run
\* of the effect has no handler once src has changed: its load event starts
\* no processing and leaves colors as it is; processing starts only with
\* the load event of the image of the latest run, and colors changes only
\* at the end of that processing.
C35_StaleLoadNeverSetsColors ==
  [][ /\ \A i \in DOMAIN stale :
           (~stale[i].fired /\ stale'[i].fired) =>
             /\ lpc' = lpc
             /\ lcolors' = lcolors
             /\ lresult' = lresult
             /\ legacyColors' = legacyColors
      /\ (lpc = "idle" /\ lpc' = "seed") =>
           /\ legacyLoadPending
           /\ ~legacyLoadPending'
           /\ stale' = stale
      /\ legacyColors' # legacyColors => lpc = "returned" ]_vars

\* src has changed while the first image was loading; the first image has
\* fired its load event since, and the palette is that of the second image
C35_Witness ==
  /\ props = [src |-> SrcHttps, imgRef |-> undefined]
  /\ legacySrcLog = <<SrcLocal, SrcHttps>>
  /\ Len(stale) = 1
  /\ stale[1].fired
  /\ ~legacyLoadPending
  /\ lpc = "idle"
  /\ legacyColors # null

====
